---------------------------- MODULE Spec2Model ----------------------------
(***************************************************************************)
(* State-machine model of the learning-session workflows of EduSpark AI:  *)
(*   - ApiProvider (src/src/context/ApiContext.tsx)                        *)
(*   - KidGeniusApp (src/App.tsx 700-1419)                                 *)
(*   - QuizMasterApp quiz flow and content generation (src/App.tsx 1822-)  *)
(*   - QuizMasterApp flashcards stage and start-up reads                    *)
(*   - EnglishPracticeApp (src/unnamed/part_000)                           *)
(*   - AILabApp (src/unnamed/part_001)                                     *)
(* One action per UI event handler or promise continuation.  React state   *)
(* of a component is one record; the effects that React runs after the     *)
(* render that follows a handler are part of that handler's action.        *)
(* A closure captures the state of the render in which it was created: an  *)
(* in-flight request carries the values its continuation closed over.      *)
(***************************************************************************)
EXTENDS Integers, Sequences, FiniteSets, TLC

VARIABLES view, api, kg, ls, net, qm, en, lab

vars == <<view, api, kg, ls, net, qm, en, lab>>

-----------------------------------------------------------------------------
(* Bounds of the model *)

\* largest number of questions/cards an upstream response carries
MaxQuestions == 6
\* KidGenius quiz-generation requests issued in one session
MaxRequests == 1
\* learning-path requests that are outstanding at the same time
MaxInFlight == 2

-----------------------------------------------------------------------------
(* Program constants *)

\* two of the four grades and one of the seven subjects of the source: the
\* code treats grade and subject alike (both are parts of the storage keys)
GRADES == {"Lop6", "Lop7"}
SUBJECTS == {"Toan"}
DIFFICULTIES == <<"De", "TrungBinh", "Kho">>
difficultyOrder == [De |-> 1, TrungBinh |-> 2, Kho |-> 3]
\* generateLearningPath accepts exactly 4 week-plans
NumWeeks == 4
\* handleAnswerSelect: setScore(s => s + 20)
PointsPerQuestion == 20
\* unlock effect: score >= 70
PassScore == 70
\* generateAITutorFeedback: finalScore >= 100
PerfectScore == 100
\* options shown per question (the prompt asks for 4; two are enough to
\* tell a right from a wrong choice)
NumOptions == 2

NoKey == "null"
Absent == "undefined"
\* learningPath === null
NoPath == [origin |-> <<"", "">>]
\* selectedAnswer === null, viewingHistoryEntry === null: the empty sequence;
\* a present value v is <<v>>
Null == << >>
NoFeedback == "null"
\* a component that is not rendered has no state
Unmounted == [stage |-> "unmounted"]

Partitions == GRADES \X SUBJECTS

\* weekTopics.join(', ') of week w of a learning path
WeekTopic(w) == <<"W1", "W2", "W3", "W4">>[w]

\* upstream outcomes of a content-generation call
RespKinds == {"error", "empty", "unparseable", "wrongShape", "zeroItems", "ok"}

\* lengths of the question lists the generator returns: the prompt asks for
\* 5 questions, the code accepts any non-empty array
QuizLengths == 1..MaxQuestions

\* the n questions generated for the prompt built from settings st:
\* question i has correct option i % 2
GenQuestions(st, n) ==
    [i \in 1..n |-> [correctAnswerIndex |-> i % NumOptions,
                     grade |-> st.grade, subject |-> st.subject,
                     topic |-> st.topic, difficulty |-> st.difficulty]]

-----------------------------------------------------------------------------
(* ApiProvider *)

\* key.trim(): the model's keys are "", " ", "K" and " K "
Trim(key) == IF key \in {"", " "} THEN "" ELSE "K"

KeyInputs == {"", " ", "K", " K "}

\* saveApiKey without the trim: every non-empty text is stored as typed
SaveApiKeyUntrimmed(key) ==
    /\ api.showKeyModal
    /\ IF key # ""
         THEN /\ api' = [apiKey |-> key, showKeyModal |-> FALSE]
              /\ ls' = [ls EXCEPT !.apiKey = key]
         ELSE UNCHANGED <<api, ls>>
    /\ UNCHANGED <<view, en, lab, kg, net, qm>>

SaveApiKey(key) ==
    /\ api.showKeyModal
    /\ IF key # "" /\ Trim(key) # ""
         THEN /\ api' = [apiKey |-> Trim(key), showKeyModal |-> FALSE]
              /\ ls' = [ls EXCEPT !.apiKey = Trim(key)]
         ELSE UNCHANGED <<api, ls>>
    /\ UNCHANGED <<view, en, lab, kg, net, qm>>

\* runWithApiKey with a null key: shows the modal and rejects
RunWithoutKey == [api EXCEPT !.showKeyModal = TRUE]

-----------------------------------------------------------------------------
(* KidGeniusApp: unlock policy *)

UnlockedLevel(progress, g, s) ==
    IF progress[g][s] = Absent THEN "De" ELSE progress[g][s]

NextDifficulty(d) ==
    CHOOSE key \in DOMAIN difficultyOrder :
        difficultyOrder[key] = difficultyOrder[d] + 1

\* variant of the updater without the "strictly higher" comparison
UnlockUpdaterNoCompare(prev, g, s, nextDifficulty) ==
    [prev EXCEPT ![g][s] = nextDifficulty]

\* variant of the updater that raises the pair one tier above its current
\* level instead of to the tier after the difficulty played
UnlockUpdaterOneTierUp(prev, g, s, nextDifficulty) ==
    IF difficultyOrder[UnlockedLevel(prev, g, s)] < 3
      THEN [prev EXCEPT ![g][s] = NextDifficulty(UnlockedLevel(prev, g, s))]
      ELSE prev

\* the updater passed to setUnlockedLevels
UnlockUpdater(prev, g, s, nextDifficulty) ==
    IF difficultyOrder[nextDifficulty] > difficultyOrder[UnlockedLevel(prev, g, s)]
      THEN [prev EXCEPT ![g][s] = nextDifficulty]
      ELSE prev

\* variant of the unlock effect with the threshold one question lower
UnlockPolicyLowThreshold(progress, g, s, d, sc) ==
    IF sc >= PassScore - PointsPerQuestion /\ difficultyOrder[d] < 3
      THEN UnlockUpdater(progress, g, s, NextDifficulty(d))
      ELSE progress

\* body of the unlock effect: progress is unlockedLevels, d and sc are
\* settings.difficulty and score of the committed render
UnlockPolicy(progress, g, s, d, sc) ==
    IF sc >= PassScore /\ difficultyOrder[d] < 3
      THEN UnlockUpdater(progress, g, s, NextDifficulty(d))
      ELSE progress

\* Effects React runs after the render that commits k (the state a handler
\* produced) with local storage l; settingsSet tells that the handler
\* called setSettings (a new settings object).
Commit(k, l, settingsSet) ==
    LET g == k.settings.grade
        s == k.settings.subject
        partChanged == g # kg.settings.grade \/ s # kg.settings.subject
        \* path / history load effect, deps [grade, subject]
        k1 == IF partChanged
                THEN [k EXCEPT !.learningPath = l.path[<<g, s>>],
                               !.quizHistory = l.history[<<g, s>>]]
                ELSE k
        \* settings save effect, deps [grade, subject]
        l1 == IF partChanged THEN [l EXCEPT !.settings = <<g, s>>] ELSE l
        \* unlock effect, deps [stage, score, settings]
        unlockRuns == /\ k.stage = "result"
                      /\ (k.stage # kg.stage \/ k.score # kg.score \/ settingsSet)
        newProgress == UnlockPolicy(k.unlockedLevels, g, s, k.settings.difficulty, k.score)
        k2 == IF unlockRuns THEN [k1 EXCEPT !.unlockedLevels = newProgress] ELSE k1
        l2 == IF unlockRuns /\ newProgress # k.unlockedLevels
                THEN [l1 EXCEPT !.progress = newProgress] ELSE l1
    IN  /\ kg' = k2
        /\ ls' = l2


-----------------------------------------------------------------------------
(* KidGeniusApp: learning path *)

\* difficulties passed (score >= 70) in history on the topic of week w
PassedDifficulties(history, w) ==
    {history[i].difficulty : i \in {j \in 1..Len(history) :
        history[j].topic = WeekTopic(w) /\ history[j].score >= PassScore}}

\* LearningPathMap: the while loop that computes maxUnlockedWeek
RECURSIVE MaxUnlockedWeekFrom(_, _)
MaxUnlockedWeekFrom(history, w) ==
    IF w <= NumWeeks /\ PassedDifficulties(history, w) = {"De", "TrungBinh", "Kho"}
      THEN MaxUnlockedWeekFrom(history, w + 1)
      ELSE w

maxUnlockedWeek(history) == MaxUnlockedWeekFrom(history, 1)

Max(S) == CHOOSE x \in S : \A y \in S : y <= x
Min(S) == CHOOSE x \in S : \A y \in S : x <= y

getUnlockedDifficultyIndex(history, w) ==
    LET passed == PassedDifficulties(history, w)
    IN  IF passed # {}
          THEN Min({Max({1} \cup {difficultyOrder[d] : d \in passed}) + 1, 3})
          ELSE 1

\* "Tao Lo Trinh Hoc Tap" button: runWithApiKey(generateLearningPath)
GenerateLearningPathClick ==
    /\ kg.stage = "setup"
    /\ kg.learningPath = NoPath
    /\ ~kg.isLoading
    /\ Len(net.path) < MaxInFlight
    /\ IF api.apiKey = NoKey
         THEN /\ api' = RunWithoutKey
              /\ UNCHANGED <<kg, ls, net>>
         ELSE /\ net' = [net EXCEPT !.path = Append(@,
                            [grade |-> kg.settings.grade, subject |-> kg.settings.subject])]
              /\ Commit([kg EXCEPT !.isLoading = TRUE, !.error = ""], ls, FALSE)
              /\ UNCHANGED api
    /\ UNCHANGED <<view, en, lab, qm>>

RemoveAt(seq, i) == [j \in 1..(Len(seq) - 1) |-> IF j < i THEN seq[j] ELSE seq[j + 1]]

\* continuation of generateLearningPath after the await
LearningPathResponse(i, kind) ==
    /\ i \in 1..Len(net.path)
    /\ LET req == net.path[i]
           pathData == [origin |-> <<req.grade, req.subject>>]
       IN  /\ net' = [net EXCEPT !.path = RemoveAt(@, i)]
           /\ IF kind = "ok"
                THEN Commit([kg EXCEPT !.learningPath = pathData, !.isLoading = FALSE],
                            [ls EXCEPT !.path[<<req.grade, req.subject>>] = pathData], FALSE)
                ELSE Commit([kg EXCEPT !.error = "path", !.isLoading = FALSE], ls, FALSE)
    /\ UNCHANGED <<view, en, lab, api, qm>>

\* "Xoa lo trinh & tao lai" link, after confirm()
DeleteLearningPath(confirmed) ==
    /\ kg.stage = "setup"
    /\ kg.learningPath # NoPath
    /\ IF confirmed
         THEN Commit([kg EXCEPT !.learningPath = NoPath],
                     [ls EXCEPT !.path[<<kg.settings.grade, kg.settings.subject>>] = NoPath], FALSE)
         ELSE UNCHANGED <<kg, ls>>
    /\ UNCHANGED <<view, en, lab, api, net, qm>>

-----------------------------------------------------------------------------
(* KidGeniusApp: settings and quiz generation *)

handleSettingChange(key, value) ==
    /\ kg.stage = "setup"
    /\ Commit([kg EXCEPT !.settings[key] = value, !.error = ""], ls, TRUE)
    /\ UNCHANGED <<view, en, lab, api, net, qm>>

\* a difficulty button of the selected week: onStartQuiz(selectedWeek.topics, d);
\* limit caps the number of requests of one behaviour
startQuizFromPathWithin(limit, w, d) ==
    /\ kg.stage = "setup"
    /\ kg.learningPath # NoPath
    /\ w <= maxUnlockedWeek(kg.quizHistory)
    /\ difficultyOrder[d] <= getUnlockedDifficultyIndex(kg.quizHistory, w)
    /\ net.issued < limit
    /\ LET k0 == [kg EXCEPT !.settings.topic = WeekTopic(w), !.settings.difficulty = d]
       IN  IF api.apiKey = NoKey
             THEN /\ api' = RunWithoutKey
                  /\ Commit(k0, ls, TRUE)
                  /\ UNCHANGED net
             ELSE \* generateKidGeniusQuiz(true) of the render before setSettings
                  /\ net' = [net EXCEPT !.quiz = Append(@, kg.settings),
                                        !.issued = @ + 1]
                  /\ Commit([k0 EXCEPT !.isLoading = TRUE, !.error = "", !.isFromPath = TRUE],
                            ls, TRUE)
                  /\ UNCHANGED api
    /\ UNCHANGED <<view, en, lab, qm>>

startQuizFromPath(w, d) == startQuizFromPathWithin(MaxRequests, w, d)

\* what generateKidGeniusQuiz makes of the upstream outcome: the question
\* list it installs, or <<>> when it throws
KidGeniusParse(kind, st, n) ==
    IF kind = "ok" THEN GenQuestions(st, n) ELSE << >>

\* continuation of generateKidGeniusQuiz after the await
QuizResponse(i, kind, n) ==
    /\ i \in 1..Len(net.quiz)
    /\ net' = [net EXCEPT !.quiz = RemoveAt(@, i)]
    /\ LET generatedQuestions == KidGeniusParse(kind, net.quiz[i], n)
       IN  IF Len(generatedQuestions) > 0
             THEN Commit([kg EXCEPT !.questions = generatedQuestions,
                                    !.currentQuestionIndex = 0,
                                    !.score = 0,
                                    !.selectedAnswer = Null,
                                    !.showFeedback = FALSE,
                                    !.userAnswers = << >>,
                                    !.aiTutorFeedback = NoFeedback,
                                    !.stage = "quiz",
                                    !.isLoading = FALSE], ls, FALSE)
             ELSE Commit([kg EXCEPT !.error = "quiz", !.isLoading = FALSE], ls, FALSE)
    /\ UNCHANGED <<view, en, lab, api, qm>>

-----------------------------------------------------------------------------
(* KidGeniusApp: answering, completion, tutor feedback, history *)

\* finalQuestions.map(...).filter(Boolean): indices answered wrongly or not at all
wrongAnswersInfo(finalQuestions, finalUserAnswers) ==
    {i \in 0..(Len(finalQuestions) - 1) :
        ~(i \in DOMAIN finalUserAnswers
          /\ finalUserAnswers[i] = finalQuestions[i + 1].correctAnswerIndex)}

\* newHistoryEntry of the finally block (date left out)
HistoryEntry(finalScore, st, finalQuestions, finalUserAnswers, feedbackData) ==
    [score |-> finalScore,
     difficulty |-> st.difficulty,
     topic |-> IF st.topic # "" THEN st.topic ELSE st.subject,
     questions |-> finalQuestions,
     userAnswers |-> finalUserAnswers,
     aiTutorFeedback |-> feedbackData]

\* setQuizHistory(prevHistory => [...prevHistory, newHistoryEntry])
AppendHistory(prevHistory, newHistoryEntry) == Append(prevHistory, newHistoryEntry)

\* finally block of generateAITutorFeedback run on component state k: st is
\* the settings object the closure captured
FeedbackFinally(k, l, finalScore, st, finalQuestions, finalUserAnswers, feedbackData) ==
    LET updatedHistory == AppendHistory(k.quizHistory,
            HistoryEntry(finalScore, st, finalQuestions, finalUserAnswers, feedbackData))
    IN  [k |-> [k EXCEPT !.quizHistory = updatedHistory,
                         !.aiTutorFeedback = feedbackData,
                         !.isFeedbackLoading = FALSE],
         l |-> [l EXCEPT !.history[<<st.grade, st.subject>>] = updatedHistory]]

\* variant of the handler without the showFeedback guard
handleAnswerSelectNoGuard(optionIndex) ==
    /\ kg.stage = "quiz"
    /\ Len(kg.questions) > 0
    /\ LET currentQuestion == kg.questions[kg.currentQuestionIndex + 1]
           isCorrect == optionIndex = currentQuestion.correctAnswerIndex
           idx == kg.currentQuestionIndex
       IN  Commit([kg EXCEPT
               !.userAnswers = [i \in DOMAIN @ \cup {idx} |->
                                   IF i = idx THEN optionIndex ELSE @[i]],
               !.selectedAnswer = <<[index |-> optionIndex, isCorrect |-> isCorrect]>>,
               !.score = IF isCorrect THEN @ + PointsPerQuestion ELSE @,
               !.showFeedback = TRUE], ls, FALSE)
    /\ UNCHANGED <<view, en, lab, api, net, qm>>

handleAnswerSelect(optionIndex) ==
    /\ kg.stage = "quiz"
    /\ Len(kg.questions) > 0
    /\ IF kg.showFeedback
         THEN UNCHANGED <<kg, ls>>
         ELSE LET currentQuestion == kg.questions[kg.currentQuestionIndex + 1]
                  isCorrect == optionIndex = currentQuestion.correctAnswerIndex
                  idx == kg.currentQuestionIndex
              IN  Commit([kg EXCEPT
                      !.userAnswers = [i \in DOMAIN @ \cup {idx} |->
                                          IF i = idx THEN optionIndex ELSE @[i]],
                      !.selectedAnswer = <<[index |-> optionIndex, isCorrect |-> isCorrect]>>,
                      !.score = IF isCorrect THEN @ + PointsPerQuestion ELSE @,
                      !.showFeedback = TRUE], ls, FALSE)
    /\ UNCHANGED <<view, en, lab, api, net, qm>>

handleNext ==
    /\ kg.stage = "quiz"
    /\ Len(kg.questions) > 0
    /\ kg.showFeedback
    /\ LET k0 == [kg EXCEPT !.selectedAnswer = Null, !.showFeedback = FALSE]
       IN  IF kg.currentQuestionIndex < Len(kg.questions) - 1
             THEN /\ Commit([k0 EXCEPT !.currentQuestionIndex = @ + 1], ls, FALSE)
                  /\ UNCHANGED <<api, net>>
             ELSE LET finalScore == kg.score
                      k1 == [k0 EXCEPT !.stage = "result"]
                  IN  IF api.apiKey = NoKey
                        THEN /\ api' = RunWithoutKey
                             /\ Commit(k1, ls, FALSE)
                             /\ UNCHANGED net
                        ELSE \* generateAITutorFeedback(finalScore, questions, userAnswers)
                             IF /\ wrongAnswersInfo(kg.questions, kg.userAnswers) = {}
                                /\ finalScore >= PerfectScore
                               THEN LET r == FeedbackFinally(k1, ls, finalScore, kg.settings,
                                                 kg.questions, kg.userAnswers, "perfect")
                                    IN  /\ Commit(r.k, r.l, FALSE)
                                        /\ UNCHANGED <<api, net>>
                               ELSE /\ net' = [net EXCEPT !.feedback = Append(@,
                                           [finalScore |-> finalScore,
                                            settings |-> kg.settings,
                                            finalQuestions |-> kg.questions,
                                            finalUserAnswers |-> kg.userAnswers])]
                                    /\ Commit([k1 EXCEPT !.isFeedbackLoading = TRUE,
                                                         !.aiTutorFeedback = NoFeedback],
                                              ls, FALSE)
                                    /\ UNCHANGED api
    /\ UNCHANGED <<view, en, lab, qm>>

\* variant of the continuation that records the attempt only when the
\* tutor-feedback call succeeds
FeedbackResponseDropsOnError(i, kind) ==
    /\ i \in 1..Len(net.feedback)
    /\ LET req == net.feedback[i]
           r == FeedbackFinally(kg, ls, req.finalScore, req.settings,
                                req.finalQuestions, req.finalUserAnswers, "ai")
       IN  /\ net' = [net EXCEPT !.feedback = RemoveAt(@, i)]
           /\ IF kind = "ok"
                THEN Commit(r.k, r.l, FALSE)
                ELSE Commit([kg EXCEPT !.aiTutorFeedback = "error",
                                       !.isFeedbackLoading = FALSE], ls, FALSE)
    /\ UNCHANGED <<view, en, lab, api, qm>>

\* continuation of generateAITutorFeedback after the await: catch and finally
FeedbackResponse(i, kind) ==
    /\ i \in 1..Len(net.feedback)
    /\ LET req == net.feedback[i]
           feedbackData == IF kind = "ok" THEN "ai" ELSE "error"
           r == FeedbackFinally(kg, ls, req.finalScore, req.settings,
                                req.finalQuestions, req.finalUserAnswers, feedbackData)
       IN  /\ net' = [net EXCEPT !.feedback = RemoveAt(@, i)]
           /\ Commit(r.k, r.l, FALSE)
    /\ UNCHANGED <<view, en, lab, api, qm>>

handlePlayAgain ==
    /\ kg.stage = "result"
    /\ Commit([kg EXCEPT !.viewingHistoryEntry = Null,
                         !.stage = "setup",
                         !.questions = << >>,
                         !.error = "",
                         !.aiTutorFeedback = NoFeedback,
                         !.settings.topic = ""], ls, TRUE)
    /\ UNCHANGED <<view, en, lab, api, net, qm>>

\* variant of the back button that records the abandoned attempt
QuizBackRecords(confirmed) ==
    /\ kg.stage = "quiz"
    /\ Len(kg.questions) > 0
    /\ IF confirmed
         THEN LET r == FeedbackFinally([kg EXCEPT !.stage = "setup"], ls, kg.score,
                           kg.settings, kg.questions, kg.userAnswers, NoFeedback)
              IN  Commit(r.k, r.l, FALSE)
         ELSE UNCHANGED <<kg, ls>>
    /\ UNCHANGED <<view, en, lab, api, net, qm>>

\* "Quay lai" button of the quiz stage, with the answer given to confirm()
QuizBack(confirmed) ==
    /\ kg.stage = "quiz"
    /\ Len(kg.questions) > 0
    /\ IF confirmed
         THEN Commit([kg EXCEPT !.stage = "setup"], ls, FALSE)
         ELSE UNCHANGED <<kg, ls>>
    /\ UNCHANGED <<view, en, lab, api, net, qm>>

\* button of a history entry in the setup stage
ViewHistoryEntry(i) ==
    /\ kg.stage = "setup"
    /\ i \in 1..Len(kg.quizHistory)
    /\ kg.quizHistory[i].aiTutorFeedback # NoFeedback
    /\ Commit([kg EXCEPT !.viewingHistoryEntry = <<kg.quizHistory[i]>>,
                         !.stage = "result"], ls, FALSE)
    /\ UNCHANGED <<view, en, lab, api, net, qm>>

-----------------------------------------------------------------------------
(* QuizMasterApp: helpers *)

\* const clamp = (n, min, max) => Math.min(Math.max(n, min, max))
clamp(n, min, max) == Min({Max({n, min, max})})

RECURSIVE GCD(_, _)
GCD(a, b) == IF b = 0 THEN a ELSE GCD(b, a % b)

\* score is a double that accumulates 100 / questions.length; the model keeps
\* it as an exact fraction <<numerator, denominator>>.  For every list of at
\* most 23 questions Math.round of the double sum equals Math.round of the
\* exact sum (the first difference is 15 correct answers out of 24).
AddPoints(sc, len) ==
    LET num == sc[1] * len + 100 * sc[2]
        den == sc[2] * len
        g == GCD(num, den)
    IN  <<num \div g, den \div g>>

\* Math.round(x) for x >= 0: floor(x + 0.5)
MathRound(sc) == (2 * sc[1] + sc[2]) \div (2 * sc[2])

RECURSIVE StreakFrom(_, _, _, _)
StreakFrom(bools, i, cur, best) ==
    IF i > Len(bools) THEN best
    ELSE IF bools[i]
      THEN StreakFrom(bools, i + 1, cur + 1, Max({best, cur + 1}))
      ELSE StreakFrom(bools, i + 1, 0, best)

longestStreak(bools) == StreakFrom(bools, 1, 0, 0)

\* questions of a generated learning kit: multiple choice, ids 1..n
KitQuestions(n) ==
    [i \in 1..n |-> [id |-> i, type |-> "mc", opts |-> NumOptions, a |-> i % NumOptions]]

\* flashcards of a generated kit or PDF, with status 'new'
NewCards(n) == [i \in 1..n |-> [front |-> i, back |-> i, status |-> "new"]]

ProgressStages == {"learningKit", "review", "quiz", "cards", "share"}

\* Effects after the render that commits q with local storage l and
\* in-flight requests n: the session save effect and the result effect
CommitQm(q, l, n) ==
    LET deps(x) == <<x.stage, x.topic, x.questions, x.answers, x.cards, x.learningKit>>
        \* session save effect
        l1 == IF q.stage \in ProgressStages /\ q.assignmentId = "" /\ deps(q) # deps(qm)
                THEN [l EXCEPT !.session = <<[stage |-> q.stage, topic |-> q.topic,
                                             questions |-> q.questions, answers |-> q.answers,
                                             cards |-> q.cards, learningKit |-> q.learningKit]>>]
                ELSE l
        \* result effect: runWithApiKey(generateFeedbackWithGemini)
        runs == /\ q.stage = "result" /\ q.result # Null /\ q.assignmentId = ""
                /\ (q.stage # qm.stage \/ q.result # qm.result)
        sends == runs /\ api.apiKey # NoKey /\ Len(q.questions) > 0
    IN  /\ qm' = IF sends THEN [q EXCEPT !.geminiFeedback = "loading"] ELSE q
        /\ ls' = l1
        /\ net' = IF sends THEN [n EXCEPT !.qmFeedback = @ + 1] ELSE n
        /\ api' = IF runs /\ api.apiKey = NoKey THEN RunWithoutKey ELSE api

\* continuation of generateFeedbackWithGemini after the await
QmFeedbackResponse(kind) ==
    /\ net.qmFeedback > 0
    /\ CommitQm([qm EXCEPT !.geminiFeedback = IF kind = "ok" THEN "ai" ELSE "error"],
                ls, [net EXCEPT !.qmFeedback = @ - 1])
    /\ UNCHANGED <<view, en, lab, kg>>

resetAll ==
    [qm EXCEPT !.stage = "builder", !.topic = "", !.questions = << >>,
               !.answers = << >>, !.correctness = << >>, !.cards = << >>,
               !.hasPdf = FALSE, !.parseError = "", !.generationError = "",
               !.geminiFeedback = "", !.selectedCharacter = "",
               !.learningKit = Null, !.builderMode = "choice",
               !.count = 5, !.cardFilter = "all",
               !.quizFromCardsStrategy = "notMastered"]

-----------------------------------------------------------------------------
(* QuizMasterApp: builder and content generation *)

SetBuilderMode(m) ==
    /\ qm.stage = "builder"
    /\ m # qm.builderMode
    /\ (m = "choice") # (qm.builderMode = "choice")
    /\ CommitQm([qm EXCEPT !.builderMode = m], ls, net)
    /\ UNCHANGED <<view, en, lab, kg>>

SetTopic(t) ==
    /\ qm.stage = "builder" /\ qm.builderMode = "kit"
    /\ CommitQm([qm EXCEPT !.topic = t], ls, net)
    /\ UNCHANGED <<view, en, lab, kg>>

\* "generate" button: runWithApiKey(generateLearningKitWithGemini)
GenerateLearningKitClick ==
    /\ qm.stage = "builder" /\ qm.builderMode = "kit"
    /\ ~qm.isGenerating
    /\ IF api.apiKey = NoKey
         THEN /\ api' = RunWithoutKey
              /\ UNCHANGED <<qm, ls, net>>
         ELSE IF qm.topic = ""
           THEN CommitQm([qm EXCEPT !.generationError = "no-topic"], ls, net)
           ELSE /\ net.issued < MaxRequests
                /\ CommitQm([qm EXCEPT !.isGenerating = TRUE, !.generationError = ""],
                            ls, [net EXCEPT !.kit = @ + 1, !.issued = @ + 1])
    /\ UNCHANGED <<view, en, lab, kg>>

\* what generateLearningKitWithGemini makes of the upstream outcome:
\* thrown tells that the try block throws; otherwise generatedKit is
\* installed with generatedKit.questions || [] and
\* generatedKit.flashcards || []
LearningKitParse(kind, n) ==
    CASE kind = "ok"         -> [thrown |-> FALSE, kit |-> <<"kit">>, items |-> n]
      [] kind = "zeroItems"  -> [thrown |-> FALSE, kit |-> <<"kit">>, items |-> 0]
      [] kind = "wrongShape" -> [thrown |-> FALSE, kit |-> <<"other">>, items |-> 0]
      [] OTHER               -> [thrown |-> TRUE, kit |-> Null, items |-> 0]

\* continuation of generateLearningKitWithGemini after the await
LearningKitResponse(kind, n) ==
    /\ net.kit > 0
    /\ LET r == LearningKitParse(kind, n)
           n1 == [net EXCEPT !.kit = @ - 1]
       IN  IF ~r.thrown
             THEN CommitQm([qm EXCEPT !.learningKit = r.kit,
                                      !.questions = KitQuestions(r.items),
                                      !.cards = NewCards(r.items),
                                      !.answers = << >>,
                                      !.correctness = << >>,
                                      !.stage = "learningKit",
                                      !.isGenerating = FALSE], ls, n1)
             ELSE CommitQm([qm EXCEPT !.generationError = "kit",
                                      !.isGenerating = FALSE], ls, n1)
    /\ UNCHANGED <<view, en, lab, kg>>

\* the file input of the PDF builder
SelectPdf ==
    /\ qm.stage = "builder" /\ qm.builderMode = "pdf"
    /\ ~qm.hasPdf
    /\ CommitQm([qm EXCEPT !.hasPdf = TRUE, !.parseError = ""], ls, net)
    /\ UNCHANGED <<view, en, lab, kg>>

\* "Tao the hoc tap tu PDF" button: runWithApiKey(parsePdfToCards)
ParsePdfClick ==
    /\ qm.stage = "builder" /\ qm.builderMode = "pdf"
    /\ qm.hasPdf /\ ~qm.isParsing
    /\ IF api.apiKey = NoKey
         THEN /\ api' = RunWithoutKey
              /\ UNCHANGED <<qm, ls, net>>
         ELSE /\ net.issued < MaxRequests
              /\ CommitQm([qm EXCEPT !.isParsing = TRUE, !.parseError = ""],
                          ls, [net EXCEPT !.pdf = Append(@, qm.pdfCardCount),
                                          !.issued = @ + 1])
    /\ UNCHANGED <<view, en, lab, kg>>

\* what parsePdfToCards makes of the upstream outcome: the cards it
\* installs, or << >> when it throws
PdfCardsParse(kind, n, limit) ==
    IF kind = "ok" THEN SubSeq(NewCards(n), 1, Min({n, limit})) ELSE << >>

\* continuation of parsePdfToCards once the text is extracted and the
\* Gemini call returns; noText is the branch that finds no text in the PDF
PdfResponse(kind, n, noText) ==
    /\ Len(net.pdf) > 0
    /\ LET limit == clamp(Head(net.pdf), 1, 20)
           n1 == [net EXCEPT !.pdf = Tail(@)]
           newCards == PdfCardsParse(kind, n, limit)
       IN  IF noText
             THEN CommitQm([qm EXCEPT !.parseError = "no-text", !.isParsing = FALSE], ls, n1)
             ELSE IF Len(newCards) > 0
               THEN CommitQm([qm EXCEPT !.cards = newCards, !.stage = "cards",
                                        !.isParsing = FALSE], ls, n1)
               ELSE CommitQm([qm EXCEPT !.parseError = "gemini", !.isParsing = FALSE],
                             ls, n1)
    /\ UNCHANGED <<view, en, lab, kg>>

\* navigation buttons between learningKit, review, cards and
\* characterSelection
QmNavigate(to) ==
    /\ \/ qm.stage = "learningKit" /\ qm.learningKit # Null
             /\ to \in {"review", "cards", "characterSelection"}
       \/ qm.stage = "review" /\ qm.learningKit # Null
             /\ to \in {"learningKit", "characterSelection"}
       \/ qm.stage = "cards" /\ qm.learningKit # Null /\ to = "learningKit"
       \/ qm.stage = "studentNameEntry" /\ qm.studentName # ""
             /\ to = "characterSelection"
    /\ CommitQm([qm EXCEPT !.stage = to], ls, net)
    /\ UNCHANGED <<view, en, lab, kg>>

\* resetAll from the learningKit, result and cards stages
QmReset ==
    /\ \/ qm.stage = "learningKit" /\ qm.learningKit # Null
       \/ qm.stage = "result" /\ qm.result # Null /\ qm.assignmentId = ""
       \/ qm.stage = "cards" /\ qm.learningKit = Null
    /\ CommitQm(resetAll, [ls EXCEPT !.session = Null], net)
    /\ UNCHANGED <<view, en, lab, kg>>

SetStudentName(name) ==
    /\ qm.stage = "studentNameEntry"
    /\ CommitQm([qm EXCEPT !.studentName = name], ls, net)
    /\ UNCHANGED <<view, en, lab, kg>>

-----------------------------------------------------------------------------
(* QuizMasterApp: quiz attempt *)

SelectCharacter(c) ==
    /\ qm.stage = "characterSelection"
    /\ CommitQm([qm EXCEPT !.selectedCharacter = c], ls, net)
    /\ UNCHANGED <<view, en, lab, kg>>

\* "Bat Dau Choi" button
StartQmQuiz ==
    /\ qm.stage = "characterSelection"
    /\ qm.selectedCharacter # ""
    /\ CommitQm([qm EXCEPT !.answers = << >>, !.correctness = << >>,
                           !.currentQuestionIndex = 0, !.score = <<0, 1>>,
                           !.selectedAnswer = Null, !.showFeedback = FALSE,
                           !.stage = "quiz"], ls, net)
    /\ UNCHANGED <<view, en, lab, kg>>

\* the quiz stage is rendered
QmQuizShown ==
    qm.stage = "quiz" /\ Len(qm.questions) > 0 /\ qm.selectedCharacter # ""

handleAnswerSelectQuiz(optionIndex) ==
    /\ QmQuizShown
    /\ optionIndex \in 0..(qm.questions[qm.currentQuestionIndex + 1].opts - 1)
    /\ IF qm.showFeedback
         THEN UNCHANGED <<api, qm, ls, net>>
         ELSE LET currentQuestion == qm.questions[qm.currentQuestionIndex + 1]
                  isCorrect == optionIndex = currentQuestion.a
              IN  CommitQm([qm EXCEPT
                      !.answers = [i \in DOMAIN @ \cup {currentQuestion.id} |->
                                      IF i = currentQuestion.id THEN optionIndex ELSE @[i]],
                      !.selectedAnswer = <<[index |-> optionIndex, isCorrect |-> isCorrect]>>,
                      !.score = IF isCorrect THEN AddPoints(@, Len(qm.questions)) ELSE @,
                      !.showFeedback = TRUE], ls, net)
    /\ UNCHANGED <<view, en, lab, kg>>

\* finalCorrectness of handleNext
Correctness(questions, answers) ==
    [i \in 1..Len(questions) |->
        questions[i].id \in DOMAIN answers /\ answers[questions[i].id] = questions[i].a]

\* submitQuiz(finalAnswers, finalCorrectness, finalScore) applied to q and l
submitQuiz(q, l, finalAnswers, finalCorrectness, finalScore) ==
    LET pack == [score |-> finalScore, total |-> 100,
                 streak |-> longestStreak(finalCorrectness)]
        newSubmission == [studentName |-> q.studentName, score |-> finalScore,
                          answers |-> finalAnswers, correctness |-> finalCorrectness]
    IN  [q |-> [q EXCEPT !.answers = finalAnswers, !.correctness = finalCorrectness,
                         !.result = <<pack>>, !.stage = "result"],
         l |-> IF q.assignmentId # "" /\ q.studentName # ""
                 THEN [l EXCEPT !.submissions = Append(@, newSubmission)]
                 ELSE [l EXCEPT !.last = <<pack>>]]

handleNextQuiz ==
    /\ QmQuizShown
    /\ qm.showFeedback
    /\ LET q0 == [qm EXCEPT !.showFeedback = FALSE, !.selectedAnswer = Null]
       IN  IF qm.currentQuestionIndex < Len(qm.questions) - 1
             THEN CommitQm([q0 EXCEPT !.currentQuestionIndex = @ + 1], ls, net)
             ELSE LET r == submitQuiz(q0, ls, qm.answers,
                                      Correctness(qm.questions, qm.answers),
                                      MathRound(qm.score))
                  IN  CommitQm(r.q, r.l, net)
    /\ UNCHANGED <<view, en, lab, kg>>

\* "Thoat" link of the quiz stage, with the answer given to confirm()
handleQuizExit(confirmed) ==
    /\ QmQuizShown
    /\ IF confirmed
         THEN IF qm.assignmentId # ""
                THEN CommitQm([qm EXCEPT !.stage = "studentNameEntry"], ls, net)
                ELSE CommitQm(resetAll, [ls EXCEPT !.session = Null], net)
         ELSE UNCHANGED <<api, qm, ls, net>>
    /\ UNCHANGED <<view, en, lab, kg>>

-----------------------------------------------------------------------------
(* Initial states *)

InitNet == [quiz |-> << >>, path |-> << >>, feedback |-> << >>, issued |-> 0,
            kit |-> 0, pdf |-> << >>, qmFeedback |-> 0,
            chat |-> << >>, explore |-> << >>,
            tts |-> << >>, decoded |-> {}, location |-> Null]

\* QuizMasterApp before its mount effect
InitQm ==
    [stage |-> "builder", builderMode |-> "choice", topic |-> "",
     questions |-> << >>, answers |-> << >>, correctness |-> << >>,
     result |-> Null, selectedCharacter |-> "", cards |-> << >>,
     learningKit |-> Null, assignmentId |-> "", studentName |-> "",
     currentQuestionIndex |-> 0, score |-> <<0, 1>>,
     selectedAnswer |-> Null, showFeedback |-> FALSE,
     isGenerating |-> FALSE, generationError |-> "",
     hasPdf |-> FALSE, isParsing |-> FALSE, parseError |-> "",
     pdfCardCount |-> 5, geminiFeedback |-> "",
     count |-> 5, countInput |-> "5", cardFilter |-> "all", quizFromCardsStrategy |-> "notMastered",
     draggedIndex |-> Null, alert |-> "", shareModalContent |-> Null]

\* QuizMasterApp after its mount effect; assignment is the value of the
\* ?assignment= URL parameter ("" when absent)
MountQm(l, assignment) ==
    IF assignment # "" /\ assignment \in DOMAIN l.assignments
      THEN [InitQm EXCEPT !.topic = "T",
                          !.questions = l.assignments[assignment],
                          !.assignmentId = assignment,
                          !.stage = "studentNameEntry"]
      ELSE InitQm

\* KidGeniusApp after its mount effects, for local storage l
MountKg(l) ==
    [stage |-> "setup",
     settings |-> [grade |-> l.settings[1], subject |-> l.settings[2],
                   difficulty |-> "De", topic |-> ""],
     questions |-> << >>,
     userAnswers |-> << >>,
     currentQuestionIndex |-> 0,
     score |-> 0,
     selectedAnswer |-> Null,
     showFeedback |-> FALSE,
     isLoading |-> FALSE,
     error |-> "",
     unlockedLevels |-> l.progress,
     learningPath |-> l.path[l.settings],
     quizHistory |-> l.history[l.settings],
     isFromPath |-> FALSE,
     aiTutorFeedback |-> NoFeedback,
     isFeedbackLoading |-> FALSE,
     viewingHistoryEntry |-> Null]

\* ApiProvider after its init effect
MountApi(l) == [apiKey |-> l.apiKey, showKeyModal |-> l.apiKey = NoKey]

\* the entry an earlier session stored in partition p for a perfect attempt
\* on week 1 at difficulty d (5 questions, all answered correctly)
StoredEntry(p, d) ==
    LET n == PerfectScore \div PointsPerQuestion
        st == [grade |-> p[1], subject |-> p[2], difficulty |-> d,
               topic |-> WeekTopic(1)]
    IN  HistoryEntry(PerfectScore, st, GenQuestions(st, n),
                     [i \in 0..(n - 1) |-> GenQuestions(st, n)[i + 1].correctAnswerIndex],
                     "perfect")

\* local storage of a profile that has a key and a learning path for every
\* (grade, subject); corrupt is the set of keys whose stored text is not
\* JSON (none: the application wrote them all); level maps the pairs played before to the difficulty
\* they unlocked: TrungBinh after a perfect attempt at De, Kho after perfect
\* attempts at De and TrungBinh
ProfileLs(level) ==
    [apiKey |-> "K",
     settings |-> <<"Lop6", "Toan">>,
     progress |-> [g \in GRADES |-> [s \in SUBJECTS |->
                      IF <<g, s>> \in DOMAIN level THEN level[<<g, s>>] ELSE Absent]],
     path |-> [p \in Partitions |-> [origin |-> p]],
     history |-> [p \in Partitions |->
                      IF p \notin DOMAIN level THEN << >>
                      ELSE IF level[p] = "TrungBinh" THEN <<StoredEntry(p, "De")>>
                      ELSE <<StoredEntry(p, "De"), StoredEntry(p, "TrungBinh")>>],
     session |-> Null,
     submissions |-> << >>,
     last |-> Null,
     assignments |-> [a \in {} |-> << >>],
     corrupt |-> {}]

\* the stored profiles of the model: Lop7 was played once; Lop6 was not
\* played, or unlocked TrungBinh, or unlocked Kho
ProfileLevels ==
    {[p \in {<<"Lop7", "Toan">>} |-> "TrungBinh"]} \cup
    {[p \in Partitions |-> IF p[1] = "Lop7" THEN "TrungBinh" ELSE l] :
        l \in {"TrungBinh", "Kho"}}

InitKG ==
    /\ \E level \in ProfileLevels : ls = ProfileLs(level)
    /\ api = MountApi(ls)
    /\ kg = MountKg(ls)
    /\ net = InitNet
    /\ qm = Unmounted
    /\ en = Unmounted
    /\ lab = Unmounted
    /\ view = "kidGenius"

\* QuizMasterApp opened by its author, or by a student through the link of
\* an assignment of n questions that a teacher stored
InitQM ==
    /\ \E link \in BOOLEAN, n \in 1..MaxQuestions :
          /\ ls = [ProfileLs(<< >>) EXCEPT
                      !.assignments = IF link THEN [a \in {"A1"} |-> KitQuestions(n)] ELSE @]
          /\ qm = MountQm(ls, IF link THEN "A1" ELSE "")
    /\ api = MountApi(ls)
    /\ kg = Unmounted
    /\ net = InitNet
    /\ en = Unmounted
    /\ lab = Unmounted
    /\ view = "quizMaster"

Init == InitKG \/ InitQM

\* the history list shows the newest entry first: the user opens that one
ViewNewestEntry ==
    /\ view = "kidGenius"
    /\ ViewHistoryEntry(Len(kg.quizHistory))

\* App renders one tool at a time: KidGeniusApp or QuizMasterApp
Next ==
    \/ \E g \in GRADES : handleSettingChange("grade", g)
    \/ \E s \in SUBJECTS : handleSettingChange("subject", s)
    \/ \E w \in 1..NumWeeks, d \in DOMAIN difficultyOrder : startQuizFromPath(w, d)
    \/ \E i \in 1..MaxRequests, kind \in RespKinds, n \in QuizLengths :
           QuizResponse(i, kind, n)
    \/ \E o \in 0..(NumOptions - 1) : handleAnswerSelect(o)
    \/ handleNext
    \/ \E i \in 1..MaxRequests, kind \in {"ok", "error"} : FeedbackResponse(i, kind)
    \/ handlePlayAgain
    \/ \E c \in BOOLEAN : QuizBack(c)
    \/ ViewNewestEntry
    \/ \E m \in {"choice", "kit", "pdf"} : SetBuilderMode(m)
    \/ \E t \in {"", "T"} : SetTopic(t)
    \/ GenerateLearningKitClick
    \/ \E kind \in RespKinds, n \in 1..MaxQuestions : LearningKitResponse(kind, n)
    \/ SelectPdf
    \/ ParsePdfClick
    \/ \E kind \in RespKinds, n \in 1..MaxQuestions, noText \in BOOLEAN :
           PdfResponse(kind, n, noText)
    \/ \E to \in {"learningKit", "review", "cards", "characterSelection"} : QmNavigate(to)
    \/ QmReset
    \/ \E name \in {"", "An"} : SetStudentName(name)
    \/ \E c \in {"Robo"} : SelectCharacter(c)
    \/ StartQmQuiz
    \/ \E o \in 0..(NumOptions - 1) : handleAnswerSelectQuiz(o)
    \/ handleNextQuiz
    \/ \E c \in BOOLEAN : handleQuizExit(c)
    \/ \E kind \in {"ok", "error"} : QmFeedbackResponse(kind)

Spec == Init /\ [][Next]_vars

\* The awaited tutor-feedback call settles: its promise resolves or rejects,
\* and the continuation (catch and finally) then runs.
SpecLive ==
    Spec /\ WF_vars(\E i \in 1..MaxRequests, kind \in {"ok", "error"} :
                        FeedbackResponse(i, kind))

-----------------------------------------------------------------------------
(* ApiProvider: runWithApiKey when the awaited callback settles *)

\* outcomes of an upstream call; "invalidKey" is an error whose message
\* contains one of the four texts that runWithApiKey looks for
GenKinds == {"ok", "error", "invalidKey"}

IsInvalidKeyError(kind) == kind = "invalidKey"

clearApiKey(a) == [a EXCEPT !.apiKey = NoKey, !.showKeyModal = TRUE]

\* catch block of runWithApiKey: it runs only when the promise returned by
\* the callback rejects
runWithApiKeyCatch(a, rejected, kind) ==
    IF rejected /\ IsInvalidKeyError(kind) THEN clearApiKey(a) ELSE a

\* localStorage.removeItem('google-api-key') of clearApiKey
StoredKeyAfterCatch(l, rejected, kind) ==
    IF rejected /\ IsInvalidKeyError(kind) THEN [l EXCEPT !.apiKey = NoKey] ELSE l

\* sendMessage and handleExplore, like generateKidGeniusQuiz, enclose the
\* upstream call in try / catch / finally and do not rethrow: the promise
\* they return is fulfilled whatever the upstream outcome
CallbackRejects(kind) == FALSE

-----------------------------------------------------------------------------
(* EnglishPracticeApp *)

\* messages a conversation may hold
MaxMessages == 5

\* playback requests a click may add to the pending ones
MaxAudio == 1

SCENARIOS == {"general", "restaurant"}

\* a message records its sender, what it is and the scenario of the chat
\* session (or of the greeting) it comes from
Message(sender, what, scenario) ==
    [sender |-> sender, what |-> what, scenario |-> scenario]

\* EnglishPracticeApp after its mount effect handleScenarioChange('general')
MountEn ==
    [stage |-> "chat", scenario |-> "general",
     messages |-> <<Message("ai", "initial", "general")>>,
     inputText |-> "", isLoading |-> FALSE, chatSession |-> Null,
     audioCache |-> {}, loadingAudioKey |-> Null, lastPlayed |-> Null]

\* msg.text of an AI message: the greeting of a scenario, the reply of the
\* chat session of a scenario, or the fixed error sentence
AudioText(m) == IF m.what = "error" THEN <<"error">> ELSE <<m.what, m.scenario>>

\* playAudio without the audioCache test
playAudioNoCache(e, n, textToPlay, audioKey, sameKey) ==
    IF sameKey
      THEN [en |-> e, net |-> n]
      ELSE [en |-> [e EXCEPT !.loadingAudioKey = <<audioKey>>],
            net |-> [n EXCEPT !.tts = Append(@, textToPlay)]]

\* playAudio(textToPlay, audioKey) up to its await, on component state e and
\* requests n; sameKey is loadingAudioKey === audioKey in the closure that
\* runs it.  net.tts holds the texts sent to the TTS model, net.decoded
\* the texts whose audio has been generated and decoded so far
playAudio(e, n, textToPlay, audioKey, sameKey) ==
    IF sameKey
      THEN [en |-> e, net |-> n]
    ELSE IF textToPlay \in e.audioCache
      THEN [en |-> [e EXCEPT !.lastPlayed = <<[text |-> textToPlay, from |-> "cache"]>>],
            net |-> n]
      ELSE [en |-> [e EXCEPT !.loadingAudioKey = <<audioKey>>],
            net |-> [n EXCEPT !.tts = Append(@, textToPlay)]]

\* the messages get fresh ids: a loadingAudioKey that is set now names a
\* message that is no longer displayed (key 0)
handleScenarioChange(newScenarioKey) ==
    /\ en.stage = "chat"
    /\ en' = [en EXCEPT !.scenario = newScenarioKey,
                        !.messages = <<Message("ai", "initial", newScenarioKey)>>,
                        !.chatSession = Null,
                        !.inputText = "",
                        !.loadingAudioKey = IF @ = Null THEN Null ELSE <<0>>]
    /\ UNCHANGED <<view, api, kg, ls, net, qm, lab>>

\* onChange of the message input
SetInputText(text) ==
    /\ en.stage = "chat"
    /\ en' = [en EXCEPT !.inputText = text]
    /\ UNCHANGED <<view, api, kg, ls, net, qm, lab>>

\* runWithApiKey(() => sendMessage(inputText)) up to the await: the request
\* goes to the chat session of the ref, created for the scenario of this
\* render when the ref is empty
sendMessage ==
    /\ Len(net.chat) < MaxInFlight
    /\ Len(en.messages) + 2 * Len(net.chat) + 2 <= MaxMessages
    /\ Len(net.chat) + Len(net.tts) < MaxInFlight + MaxAudio
    /\ IF api.apiKey = NoKey
         THEN /\ api' = RunWithoutKey
              /\ UNCHANGED <<en, net>>
         ELSE /\ UNCHANGED api
              /\ IF Trim(en.inputText) = ""
                   THEN UNCHANGED <<en, net>>
                   ELSE LET session == IF en.chatSession = Null
                                         THEN en.scenario ELSE en.chatSession[1]
                        IN  /\ en' = [en EXCEPT
                                         !.inputText = "",
                                         !.isLoading = TRUE,
                                         !.messages = Append(@, Message("user", "text", session)),
                                         !.chatSession = <<session>>]
                            /\ net' = [net EXCEPT !.chat = Append(@, [scenario |-> session])]
    /\ UNCHANGED <<view, kg, ls, qm, lab>>

\* Enter in the message input
SendEnter ==
    /\ en.stage = "chat"
    /\ sendMessage

\* the send button, disabled={isLoading || !inputText}
SendClick ==
    /\ en.stage = "chat"
    /\ ~en.isLoading
    /\ en.inputText # ""
    /\ sendMessage

\* continuation of sendMessage after the await, then of runWithApiKey
ChatResponse(i, kind) ==
    /\ i \in 1..Len(net.chat)
    /\ LET newAiMessage == Message("ai", IF kind = "ok" THEN "reply" ELSE "error",
                                   net.chat[i].scenario)
           e1 == [en EXCEPT !.messages = Append(@, newAiMessage), !.isLoading = FALSE]
           n1 == [net EXCEPT !.chat = RemoveAt(@, i)]
           \* runWithApiKey(() => playAudio(newAiMessage.text, `main-${id}`))
           r == IF kind = "ok" /\ api.apiKey # NoKey
                  THEN playAudio(e1, n1, AudioText(newAiMessage), Len(e1.messages), FALSE)
                  ELSE [en |-> e1, net |-> n1]
       IN  en' = r.en /\ net' = r.net
    /\ api' = runWithApiKeyCatch(api, CallbackRejects(kind), kind)
    /\ ls' = StoredKeyAfterCatch(ls, CallbackRejects(kind), kind)
    /\ UNCHANGED <<view, kg, qm, lab>>

\* the play button of the AI message at position pos,
\* disabled={loadingAudioKey === `main-${msg.id}`}
PlayAudioClick(pos) ==
    /\ en.stage = "chat"
    /\ pos \in 1..Len(en.messages)
    /\ en.messages[pos].sender = "ai"
    /\ en.loadingAudioKey # <<pos>>
    /\ Len(net.tts) < MaxAudio
    /\ IF api.apiKey = NoKey
         THEN /\ api' = RunWithoutKey
              /\ UNCHANGED <<en, net>>
         ELSE LET r == playAudio(en, net, AudioText(en.messages[pos]), pos, FALSE)
              IN  en' = r.en /\ net' = r.net /\ UNCHANGED api
    /\ UNCHANGED <<view, kg, ls, qm, lab>>

\* continuation of playAudio after the await: kind "ok" is a reply with
\* inline audio that decodes, "noAudio" a reply without inline data, the
\* other kinds throw into the catch block
TtsResponse(i, kind) ==
    /\ en.stage = "chat"
    /\ i \in 1..Len(net.tts)
    /\ LET textToPlay == net.tts[i]
       IN  IF kind = "ok"
             THEN /\ en' = [en EXCEPT !.audioCache = @ \cup {textToPlay},
                                      !.lastPlayed = <<[text |-> textToPlay, from |-> "generated"]>>,
                                      !.loadingAudioKey = Null]
                  /\ net' = [net EXCEPT !.tts = RemoveAt(@, i),
                                        !.decoded = @ \cup {textToPlay}]
             ELSE /\ en' = [en EXCEPT !.loadingAudioKey = Null]
                  /\ net' = [net EXCEPT !.tts = RemoveAt(@, i)]
    /\ UNCHANGED <<view, api, kg, ls, qm, lab>>

\* the sidebar's dashboard entry: EnglishPracticeApp unmounts, its refs
\* (audioCache, chatSessionRef) go with it and the continuations of its
\* pending requests no longer reach a mounted component
LeaveEnglish ==
    /\ view = "english"
    /\ view' = "dashboard"
    /\ en' = Unmounted
    /\ net' = [net EXCEPT !.chat = << >>, !.tts = << >>]
    /\ UNCHANGED <<api, kg, ls, qm, lab>>

\* the dashboard's English tool card: setView('english')
OpenEnglish ==
    /\ view = "dashboard"
    /\ en = Unmounted /\ kg = Unmounted /\ qm = Unmounted /\ lab = Unmounted
    /\ view' = "english"
    /\ en' = MountEn
    /\ UNCHANGED <<api, kg, ls, net, qm, lab>>

\* EnglishPracticeApp alone: conversation, audio playback, leaving the tool
\* and coming back
InitAudio ==
    /\ ls = ProfileLs(<< >>)
    /\ api = MountApi(ls)
    /\ net = InitNet
    /\ view = "english"
    /\ en = MountEn
    /\ kg = Unmounted
    /\ qm = Unmounted
    /\ lab = Unmounted

NextAudio ==
    \/ \E sc \in SCENARIOS : handleScenarioChange(sc)
    \/ SetInputText("hi")
    \/ SendEnter
    \/ \E i \in 1..MaxInFlight, kind \in {"ok"} : ChatResponse(i, kind)
    \/ \E pos \in 1..MaxMessages : PlayAudioClick(pos)
    \/ \E i \in 1..(MaxInFlight + MaxAudio), kind \in {"ok", "noAudio"} :
           TtsResponse(i, kind)
    \/ LeaveEnglish
    \/ OpenEnglish

SpecAudio == InitAudio /\ [][NextAudio]_vars

-----------------------------------------------------------------------------
(* AILabApp *)

MountLab ==
    [stage |-> "lab", concept |-> "", isLoading |-> FALSE,
     explanation |-> "", imageUrl |-> "", error |-> "", conversationHistory |-> 0]

\* onChange of the concept input, or a preset button
SetConcept(c) ==
    /\ lab.stage = "lab"
    /\ lab' = [lab EXCEPT !.concept = c]
    /\ UNCHANGED <<view, api, kg, ls, net, qm, en>>

\* runWithApiKey(() => handleExplore(false)) up to the await; the pending
\* call keeps the closure of the render it was started from (explanation,
\* imageUrl, conversationHistory as they were displayed before the request)
handleExplore ==
    /\ Len(net.explore) < MaxInFlight
    /\ IF api.apiKey = NoKey
         THEN /\ api' = RunWithoutKey
              /\ UNCHANGED <<lab, net>>
         ELSE /\ UNCHANGED api
              /\ IF lab.concept = ""
                   THEN /\ lab' = [lab EXCEPT !.error = "empty"]
                        /\ UNCHANGED net
                   ELSE /\ lab' = [lab EXCEPT !.isLoading = TRUE, !.error = "",
                                              !.explanation = "", !.imageUrl = "",
                                              !.conversationHistory = 0]
                        /\ net' = [net EXCEPT !.explore = Append(@,
                                      [concept |-> lab.concept,
                                       closure |-> [explanation |-> lab.explanation,
                                                    imageUrl |-> lab.imageUrl,
                                                    conversationHistory |->
                                                        lab.conversationHistory]])]
    /\ UNCHANGED <<view, kg, ls, qm, en>>

\* Enter in the concept input
ExploreEnter ==
    /\ lab.stage = "lab"
    /\ handleExplore

\* the "Kham Pha" button, disabled={isLoading}
ExploreClick ==
    /\ lab.stage = "lab"
    /\ ~lab.isLoading
    /\ handleExplore

\* continuation of handleExplore after Promise.all, then of runWithApiKey;
\* "noImage" is an answer whose image part is missing
ExploreResponse(i, kind) ==
    /\ i \in 1..Len(net.explore)
    /\ net' = [net EXCEPT !.explore = RemoveAt(@, i)]
    /\ lab' = IF kind \in {"ok", "noImage"}
                THEN [lab EXCEPT !.explanation = net.explore[i].concept,
                                 !.conversationHistory = @ + 2,
                                 !.imageUrl = IF kind = "ok" THEN "url" ELSE @,
                                 !.error = IF kind = "ok" THEN @ ELSE "failed",
                                 !.isLoading = FALSE]
                ELSE [lab EXCEPT !.error = "failed", !.isLoading = FALSE]
    /\ api' = runWithApiKeyCatch(api, CallbackRejects(kind), kind)
    /\ ls' = StoredKeyAfterCatch(ls, CallbackRejects(kind), kind)
    /\ UNCHANGED <<view, kg, qm, en>>

-----------------------------------------------------------------------------
(* Content requests of the three tools that call the upstream service from *)
(* a setup screen: several requests may be outstanding at once             *)

InitReq ==
    /\ \E level \in ProfileLevels : ls = ProfileLs(level)
    /\ api = MountApi(ls)
    /\ net = InitNet
    /\ qm = Unmounted
    /\ view \in {"kidGenius", "english", "aiLab"}
    /\ kg = IF view = "kidGenius" THEN MountKg(ls) ELSE Unmounted
    /\ en = IF view = "english" THEN MountEn ELSE Unmounted
    /\ lab = IF view = "aiLab" THEN MountLab ELSE Unmounted

NextReq ==
    \/ \E g \in GRADES : handleSettingChange("grade", g)
    \/ \E s \in SUBJECTS : handleSettingChange("subject", s)
    \/ \E w \in 1..NumWeeks, d \in DOMAIN difficultyOrder :
           startQuizFromPathWithin(MaxInFlight, w, d)
    \/ \E i \in 1..MaxInFlight, kind \in GenKinds, n \in QuizLengths :
           QuizResponse(i, kind, n)
    \/ \E c \in BOOLEAN : DeleteLearningPath(c)
    \/ GenerateLearningPathClick
    \/ \E i \in 1..MaxInFlight, kind \in GenKinds : LearningPathResponse(i, kind)
    \/ \E sc \in SCENARIOS : handleScenarioChange(sc)
    \/ \E text \in {"", "hi"} : SetInputText(text)
    \/ SendEnter
    \/ SendClick
    \/ \E i \in 1..MaxInFlight, kind \in GenKinds : ChatResponse(i, kind)
    \/ \E i \in 1..(MaxInFlight + MaxAudio), kind \in {"ok", "noAudio", "error"} :
           TtsResponse(i, kind)
    \/ \E c \in {"", "DNA"} : SetConcept(c)
    \/ ExploreEnter
    \/ ExploreClick
    \/ \E i \in 1..MaxInFlight, kind \in GenKinds \cup {"noImage"} : ExploreResponse(i, kind)

SpecReq == InitReq /\ [][NextReq]_vars

-----------------------------------------------------------------------------
(* Start-up: what the tools read from local storage when they are opened *)

StorageKeys ==
    {"settings", "progress", "path", "history", "assignments", "submissions", "session"}

StoredKinds == {"missing", "corrupt", "valid"}

\* the component tree after an exception that nothing caught
Crashed == [stage |-> "crashed"]

NoProgress == [g \in GRADES |-> [s \in SUBJECTS |-> Absent]]

\* a session that the session save effect stored at the review stage
StoredSession ==
    [stage |-> "review", topic |-> "T", questions |-> KitQuestions(2),
     answers |-> << >>, cards |-> << >>, learningKit |-> Null]

\* local storage in which every key is as kinds says: absent, present with a
\* text that is not JSON, or present as the application wrote it
StoredAs(kinds) ==
    LET full == ProfileLs([p \in Partitions |-> "TrungBinh"])
        present(k) == kinds[k] # "missing"
    IN  [full EXCEPT
           !.settings = IF present("settings") THEN <<"Lop7", "Toan">> ELSE Null,
           !.progress = IF present("progress") THEN @ ELSE NoProgress,
           !.path = IF present("path") THEN @ ELSE [p \in Partitions |-> NoPath],
           !.history = IF present("history") THEN @ ELSE [p \in Partitions |-> << >>],
           !.assignments = IF present("assignments")
                             THEN [a \in {"A1"} |-> KitQuestions(2)] ELSE @,
           !.session = IF present("session") THEN <<StoredSession>> ELSE Null,
           !.corrupt = {k \in StorageKeys : kinds[k] = "corrupt"}]

\* useState initializer of settings: try { saved ? {...defaults, ...JSON.parse(saved)}
\* : defaults } catch { defaults }
ReadSettings(l) ==
    IF "settings" \in l.corrupt \/ l.settings = Null
      THEN <<"Lop6", "Toan">> ELSE l.settings

\* progress load effect: the initial {} stays when the key is absent or its
\* text does not parse
ReadProgress(l) ==
    IF "progress" \in l.corrupt THEN NoProgress ELSE l.progress

\* path / history load effect: one try block around both reads, whose catch
\* sets both to their defaults
ReadPathAndHistory(l, p) ==
    IF {"path", "history"} \cap l.corrupt # {}
      THEN <<NoPath, << >>>>
      ELSE <<l.path[p], l.history[p]>>

\* local storage as the guarded reads of KidGeniusApp see it
AsRead(l) ==
    [l EXCEPT !.settings = ReadSettings(l),
              !.progress = ReadProgress(l),
              !.path = [p \in Partitions |-> ReadPathAndHistory(l, p)[1]],
              !.history = [p \in Partitions |-> ReadPathAndHistory(l, p)[2]]]

\* a card of the dashboard that opens KidGenius: setView('kidGenius'); the
\* mount effects remove a progress key that does not parse and save the
\* settings they read
OpenKidGenius ==
    /\ view = "dashboard"
    /\ view' = "kidGenius"
    /\ kg' = MountKg(AsRead(ls))
    /\ ls' = [ls EXCEPT !.settings = ReadSettings(ls),
                        !.progress = ReadProgress(ls),
                        !.corrupt = @ \ {"settings", "progress"}]
    /\ UNCHANGED <<api, net, qm, en, lab>>

\* JSON.parse(localStorage.getItem(key) || fallback) outside any try block
ParseThrows(l, key) == key \in l.corrupt

\* a card of the dashboard that opens QuizMaster: setView('quizMaster');
\* assignment is the ?assignment= URL parameter, resume the answer to the
\* confirm() about an unfinished session
OpenQuizMaster(assignment, resume) ==
    /\ view = "dashboard"
    /\ view' = "quizMaster"
    /\ IF assignment # ""
         THEN /\ qm' = IF ParseThrows(ls, "assignments")
                         THEN Crashed ELSE MountQm(ls, assignment)
              /\ UNCHANGED ls
         ELSE IF ParseThrows(ls, "assignments") \/ ParseThrows(ls, "submissions")
           THEN /\ qm' = Crashed
                /\ UNCHANGED ls
         ELSE IF ls.session = Null
           THEN /\ qm' = InitQm
                /\ UNCHANGED ls
         ELSE IF resume /\ "session" \notin ls.corrupt
           THEN /\ qm' = [InitQm EXCEPT !.stage = ls.session[1].stage,
                                        !.topic = ls.session[1].topic,
                                        !.questions = ls.session[1].questions,
                                        !.answers = ls.session[1].answers,
                                        !.cards = ls.session[1].cards,
                                        !.learningKit = ls.session[1].learningKit]
                /\ UNCHANGED ls
           ELSE /\ qm' = InitQm
                /\ ls' = [ls EXCEPT !.session = Null, !.corrupt = @ \ {"session"}]
    /\ UNCHANGED <<api, kg, net, en, lab>>

\* the "back to dashboard" control of App: the tool is unmounted
BackToDashboard ==
    /\ view # "dashboard"
    /\ qm # Crashed
    /\ view' = "dashboard"
    /\ kg' = Unmounted
    /\ qm' = Unmounted
    /\ UNCHANGED <<api, ls, net, en, lab>>

InitMount ==
    /\ \E kinds \in [StorageKeys -> StoredKinds] : ls = StoredAs(kinds)
    /\ api = MountApi(ls)
    /\ net = InitNet
    /\ view = "dashboard"
    /\ kg = Unmounted
    /\ qm = Unmounted
    /\ en = Unmounted
    /\ lab = Unmounted

NextMount ==
    \/ OpenKidGenius
    \/ \E assignment \in {"", "A1"}, resume \in BOOLEAN : OpenQuizMaster(assignment, resume)
    \/ BackToDashboard

SpecMount == InitMount /\ [][NextMount]_vars

-----------------------------------------------------------------------------
(* QuizMasterApp: the flashcards stage *)

\* cards of a deck
MaxCards == 6

CardStatuses == {"new", "mastered", "needs review"}

Reverse(arr) == [i \in 1..Len(arr) |-> arr[Len(arr) + 1 - i]]

Rotate(arr, k) == [i \in 1..Len(arr) |-> arr[((i - 1 + k) % Len(arr)) + 1]]

\* shuffle sorts by Math.random keys: every order is possible.  The model
\* draws the order from the rotations of the array and their reversals
\* (every order of up to three elements); r selects it.
shuffle(arr, r) ==
    IF Len(arr) = 0 THEN arr
    ELSE IF (r \div Len(arr)) % 2 = 0
      THEN Rotate(arr, r % Len(arr))
      ELSE Reverse(Rotate(arr, r % Len(arr)))

\* Array.prototype.indexOf, 0-based: the first position of x, or -1
IndexOf(arr, x) ==
    IF \E i \in 1..Len(arr) : arr[i] = x
      THEN Min({i \in 1..Len(arr) : arr[i] = x}) - 1
      ELSE -1

\* cards.filter((c) => c.front !== correct.front)
OtherFronts(cards, correct) ==
    LET keep(c) == c.front # correct.front IN SelectSeq(cards, keep)

\* rnd holds the draws of the three shuffle calls
makeMCFromCards(cards, count, rnd) ==
    LET pool == shuffle(cards, rnd.pool)
        built(i) ==
            LET correct == pool[i + 1]
                shuffled == shuffle(OtherFronts(cards, correct), rnd.distractors + i)
                distractors == [j \in 1..Min({3, Len(shuffled)}) |-> shuffled[j].back]
                opts == shuffle(<<correct.back>> \o distractors, rnd.opts + i)
            IN  [id |-> i + 1, type |-> "mc", q |-> correct.front, opts |-> opts,
                 a |-> IndexOf(opts, correct.back)]
    IN  [i \in 1..Min({count, Len(pool)}) |-> built(i - 1)]

\* the draws of one call; the draws for the distractors and for the options
\* also advance with the question
Draws ==
    [pool : 0..(MaxCards - 1), distractors : 0..1, opts : 0..1]

\* the cards that useCardsToQuiz selects for a strategy
CardPoolNotMasteredIsNew(cards, strategy) ==
    LET needsReview(c) == c.status = "needs review"
        notMastered(c) == c.status = "new"
    IN  IF strategy = "needsReview" THEN SelectSeq(cards, needsReview)
        ELSE IF strategy = "notMastered" THEN SelectSeq(cards, notMastered)
        ELSE cards

CardPool(cards, strategy) ==
    LET needsReview(c) == c.status = "needs review"
        notMastered(c) == c.status # "mastered"
    IN  IF strategy = "needsReview" THEN SelectSeq(cards, needsReview)
        ELSE IF strategy = "notMastered" THEN SelectSeq(cards, notMastered)
        ELSE cards

\* variants of useCardsToQuiz: one builds count questions from the whole
\* deck, one does not test for an empty selection
useCardsToQuizFromDeck(rnd) ==
    /\ qm.stage = "cards"
    /\ Len(qm.cards) > 0
    /\ LET cardPool == CardPool(qm.cards, qm.quizFromCardsStrategy)
       IN  IF Len(cardPool) = 0
             THEN CommitQm([qm EXCEPT !.alert = "no-cards"], ls, net)
             ELSE CommitQm([qm EXCEPT
                              !.questions = makeMCFromCards(qm.cards, qm.count, rnd),
                              !.answers = << >>, !.correctness = << >>,
                              !.stage = "characterSelection"], ls, net)
    /\ UNCHANGED <<view, kg, en, lab>>

useCardsToQuizNoEmptyTest(rnd) ==
    /\ qm.stage = "cards"
    /\ Len(qm.cards) > 0
    /\ LET cardPool == CardPool(qm.cards, qm.quizFromCardsStrategy)
       IN  CommitQm([qm EXCEPT
                        !.questions = makeMCFromCards(cardPool,
                                          Min({qm.count, Len(cardPool)}), rnd),
                        !.answers = << >>, !.correctness = << >>,
                        !.stage = "characterSelection"], ls, net)
    /\ UNCHANGED <<view, kg, en, lab>>

\* "Dung the de tao bai trac nghiem" button, shown when the deck is not empty
useCardsToQuiz(rnd) ==
    /\ qm.stage = "cards"
    /\ Len(qm.cards) > 0
    /\ LET cardPool == CardPool(qm.cards, qm.quizFromCardsStrategy)
       IN  IF Len(cardPool) = 0
             THEN CommitQm([qm EXCEPT !.alert = "no-cards"], ls, net)
             ELSE CommitQm([qm EXCEPT
                              !.questions = makeMCFromCards(cardPool,
                                                Min({qm.count, Len(cardPool)}), rnd),
                              !.answers = << >>, !.correctness = << >>,
                              !.stage = "characterSelection"], ls, net)
    /\ UNCHANGED <<view, kg, en, lab>>

\* radio buttons of the quiz strategy
SetQuizFromCardsStrategy(strategy) ==
    /\ qm.stage = "cards"
    /\ Len(qm.cards) > 0
    /\ CommitQm([qm EXCEPT !.quizFromCardsStrategy = strategy], ls, net)
    /\ UNCHANGED <<view, kg, en, lab>>

\* the card list renders the cards that pass the filter
shouldShow(c, cardFilter) ==
    \/ cardFilter = "all"
    \/ cardFilter = "needsReview" /\ c.status = "needs review"
    \/ cardFilter = "notMastered" /\ c.status # "mastered"

SetCardFilter(f) ==
    /\ qm.stage = "cards"
    /\ Len(qm.cards) > 0
    /\ CommitQm([qm EXCEPT !.cardFilter = f], ls, net)
    /\ UNCHANGED <<view, kg, en, lab>>

\* status buttons of a shown card; indices are 0-based as in the source
updateCardStatus(indexToUpdate, newStatus) ==
    /\ qm.stage = "cards"
    /\ indexToUpdate < Len(qm.cards)
    /\ shouldShow(qm.cards[indexToUpdate + 1], qm.cardFilter)
    /\ CommitQm([qm EXCEPT !.cards[indexToUpdate + 1].status = newStatus], ls, net)
    /\ UNCHANGED <<view, kg, en, lab>>

handleCardDragStart(index) ==
    /\ qm.stage = "cards"
    /\ index < Len(qm.cards)
    /\ shouldShow(qm.cards[index + 1], qm.cardFilter)
    /\ CommitQm([qm EXCEPT !.draggedIndex = <<index>>], ls, net)
    /\ UNCHANGED <<view, kg, en, lab>>

\* Array.prototype.splice(start, 1) and splice(start, 0, item), 0-based
SpliceOut(arr, start) ==
    [i \in 1..(Len(arr) - 1) |-> IF i <= start THEN arr[i] ELSE arr[i + 1]]

SpliceIn(arr, start, item) ==
    LET at == Min({start, Len(arr)})
    IN  [i \in 1..(Len(arr) + 1) |->
            IF i <= at THEN arr[i] ELSE IF i = at + 1 THEN item ELSE arr[i - 1]]

\* variant of the drop handler that exchanges the two cards
handleCardDropSwaps(dropIndex) ==
    /\ qm.stage = "cards"
    /\ dropIndex < Len(qm.cards)
    /\ shouldShow(qm.cards[dropIndex + 1], qm.cardFilter)
    /\ IF qm.draggedIndex = Null \/ qm.draggedIndex = <<dropIndex>>
         THEN CommitQm([qm EXCEPT !.draggedIndex = Null], ls, net)
         ELSE LET from == qm.draggedIndex[1]
                  newCards == [qm.cards EXCEPT ![from + 1] = qm.cards[dropIndex + 1],
                                               ![dropIndex + 1] = qm.cards[from + 1]]
              IN  CommitQm([qm EXCEPT !.cards = newCards, !.draggedIndex = Null], ls, net)
    /\ UNCHANGED <<view, kg, en, lab>>

handleCardDrop(dropIndex) ==
    /\ qm.stage = "cards"
    /\ dropIndex < Len(qm.cards)
    /\ shouldShow(qm.cards[dropIndex + 1], qm.cardFilter)
    /\ IF qm.draggedIndex = Null \/ qm.draggedIndex = <<dropIndex>>
         THEN CommitQm([qm EXCEPT !.draggedIndex = Null], ls, net)
         ELSE LET draggedItem == qm.cards[qm.draggedIndex[1] + 1]
                  newCards == SpliceIn(SpliceOut(qm.cards, qm.draggedIndex[1]),
                                       dropIndex, draggedItem)
              IN  CommitQm([qm EXCEPT !.cards = newCards, !.draggedIndex = Null], ls, net)
    /\ UNCHANGED <<view, kg, en, lab>>

\* decks that the upstream service may return for a PDF: n cards with
\* fronts and backs 1..n, except that card 2 repeats the front of card 1
\* (sameFront) or its back (sameBack); status tells the status of card i
Deck(n, sameFront, sameBack, status) ==
    [i \in 1..n |->
        [front |-> IF sameFront /\ i = 2 THEN 1 ELSE i,
         back |-> IF sameBack /\ i = 2 THEN 1 ELSE i,
         status |-> status[i]]]

\* QuizMasterApp at the cards stage after parsePdfToCards installed a deck
CardsStage(deck) ==
    [InitQm EXCEPT !.stage = "cards", !.builderMode = "pdf", !.hasPdf = TRUE,
                   !.cards = deck]

InitCardsWith(deck) ==
    /\ qm = CardsStage(deck)
    /\ ls = [ProfileLs(<< >>) EXCEPT
                !.session = <<[stage |-> "cards", topic |-> "", questions |-> << >>,
                               answers |-> << >>, cards |-> deck, learningKit |-> Null]>>]
    /\ api = MountApi(ls)
    /\ net = [InitNet EXCEPT !.issued = 1]
    /\ view = "quizMaster"
    /\ kg = Unmounted
    /\ en = Unmounted
    /\ lab = Unmounted

\* the deck as parsePdfToCards installs it: every card is new
InitCards ==
    \E n \in 1..MaxCards, sameFront \in BOOLEAN, sameBack \in BOOLEAN :
        InitCardsWith(Deck(n, sameFront, sameBack, [i \in 1..n |-> "new"]))

NextCards ==
    \/ \E i \in 0..(MaxCards - 1), st \in CardStatuses : updateCardStatus(i, st)
    \/ \E strategy \in {"all", "needsReview", "notMastered"} :
           SetQuizFromCardsStrategy(strategy)
    \/ \E rnd \in Draws : useCardsToQuiz(rnd)

SpecCards == InitCards /\ [][NextCards]_vars

\* a deck of distinct cards in which the statuses alternate, as status
\* updates leave it
InitReorder ==
    \E n \in 1..MaxCards :
        InitCardsWith(Deck(n, FALSE, FALSE,
            [i \in 1..n |-> <<"new", "mastered", "needs review">>[(i % 3) + 1]]))

NextReorder ==
    \/ \E f \in {"all", "needsReview", "notMastered"} : SetCardFilter(f)
    \/ \E i \in 0..(MaxCards - 1) : handleCardDragStart(i)
    \/ \E i \in 0..(MaxCards - 1) : handleCardDrop(i)

SpecReorder == InitReorder /\ [][NextReorder]_vars

-----------------------------------------------------------------------------
(* QuizMasterApp builder: question count and PDF card count inputs *)

\* the digit strings the count input can hold (onChange strips every
\* non-digit character)
CountTexts == {"", "0", "3", "5", "20", "25"}

\* Number(text) of a digit string
Number(t) ==
    CASE t = "" -> 0 [] t = "0" -> 0 [] t = "3" -> 3 [] t = "5" -> 5
      [] t = "20" -> 20 [] t = "25" -> 25

\* n.toString() of the counts the model reaches
CountToString(n) ==
    CASE n = 3 -> "3" [] n = 5 -> "5" [] n = 20 -> "20" [] n = 25 -> "25"
      [] OTHER -> "1"

\* onChange of the count input
SetCountInput(t) ==
    /\ qm.stage = "builder" /\ qm.builderMode = "kit"
    /\ t # qm.countInput
    /\ CommitQm([qm EXCEPT !.countInput = t], ls, net)
    /\ UNCHANGED <<view, en, lab, kg>>

\* onBlur of the count input, and the effect on [count] that rewrites
\* countInput when it differs from count.toString()
CountBlur ==
    /\ qm.stage = "builder" /\ qm.builderMode = "kit"
    /\ LET typed == Number(qm.countInput)
           c == clamp(IF typed = 0 THEN 1 ELSE typed, 1, 20)
       IN  CommitQm([qm EXCEPT !.count = c,
                               !.countInput = IF c # qm.count /\ CountToString(c) # @
                                                THEN CountToString(c) ELSE @],
                    ls, net)
    /\ UNCHANGED <<view, en, lab, kg>>

\* onChange of the range input (min 1, max 20) of the PDF mode
SetPdfCardCount(v) ==
    /\ qm.stage = "builder" /\ qm.builderMode = "pdf"
    /\ v \in 1..20
    /\ v # qm.pdfCardCount
    /\ CommitQm([qm EXCEPT !.pdfCardCount = v], ls, net)
    /\ UNCHANGED <<view, en, lab, kg>>

InitBuilder ==
    /\ ls = ProfileLs(<< >>)
    /\ api = MountApi(ls)
    /\ net = InitNet
    /\ qm = InitQm
    /\ view = "quizMaster"
    /\ kg = Unmounted
    /\ en = Unmounted
    /\ lab = Unmounted

NextBuilder ==
    \/ \E m \in {"choice", "kit", "pdf"} : SetBuilderMode(m)
    \/ \E t \in CountTexts : SetCountInput(t)
    \/ CountBlur
    \/ \E v \in {1, 5, 20} : SetPdfCardCount(v)
    \/ SelectPdf
    \/ ParsePdfClick
    \/ \E kind \in RespKinds, n \in 1..MaxCards, noText \in BOOLEAN :
           PdfResponse(kind, n, noText)

SpecBuilder == InitBuilder /\ [][NextBuilder]_vars

-----------------------------------------------------------------------------
(* QuizMasterApp cards stage: sharing a card set by link *)

\* btoa(JSON.stringify(cards.map(({ front, back }) => ({ front, back })))):
\* the ordered {front, back} pairs, without the statuses
SetData(cards) == [i \in 1..Len(cards) |-> <<cards[i].front, cards[i].back>>]

\* "Chia se bo the" button: the modal shows <origin><pathname>?shared_set=<setData>
ShareSetClick ==
    /\ qm.stage = "cards"
    /\ CommitQm([qm EXCEPT !.shareModalContent = <<SetData(qm.cards)>>], ls, net)
    /\ UNCHANGED <<view, en, lab, kg>>

\* the link of the modal is opened: the page loads with ?shared_set= in
\* net.location, in the same browser or (fresh) in one with no saved session
OpenSharedUrl(fresh) ==
    /\ qm.stage = "cards"
    /\ qm.shareModalContent # Null
    /\ view' = "dashboard"
    /\ qm' = Unmounted
    /\ net' = [InitNet EXCEPT !.location = qm.shareModalContent]
    /\ ls' = IF fresh THEN ProfileLs(<< >>) ELSE ls
    /\ api' = MountApi(ls')
    /\ UNCHANGED <<kg, en, lab>>

NextShare ==
    \/ \E i \in 0..(MaxCards - 1), st \in CardStatuses : updateCardStatus(i, st)
    \/ ShareSetClick
    \/ \E fresh \in BOOLEAN : OpenSharedUrl(fresh)
    \/ \E resume \in BOOLEAN : OpenQuizMaster("", resume)

SpecShare == InitCards /\ [][NextShare]_vars

-----------------------------------------------------------------------------
(* QuizMasterApp: a quiz on the questions of a generated kit, and resuming *)
(* the saved session                                                       *)

\* question i of a kit as questionSchema admits it: type is one of mc, tf
\* and fill, opts is nullable (0 options when it is left out); a is an option
\* index when there are options and otherwise a boolean or a text, which no
\* option index equals (-1)
SchemaQuestion(i, type, opts) ==
    [id |-> i, type |-> type, opts |-> opts,
     a |-> IF opts > 0 THEN i % opts ELSE -1]

\* QuizMasterApp at the learningKit stage after generateLearningKitWithGemini
\* installed a kit with these questions; the session save effect has run
InitQuiz ==
    \E n \in 1..2 :
      \E types \in [1..n -> {"mc", "tf", "fill"}], opts \in [1..n -> {0, NumOptions}] :
        /\ qm = [InitQm EXCEPT !.stage = "learningKit", !.builderMode = "kit",
                               !.topic = "T", !.learningKit = <<"kit">>,
                               !.questions = [i \in 1..n |->
                                                 SchemaQuestion(i, types[i], opts[i])],
                               !.cards = NewCards(n)]
        /\ ls = [ProfileLs(<< >>) EXCEPT
                    !.session = <<[stage |-> qm.stage, topic |-> qm.topic,
                                   questions |-> qm.questions, answers |-> qm.answers,
                                   cards |-> qm.cards, learningKit |-> qm.learningKit]>>]
        /\ api = MountApi(ls)
        /\ net = [InitNet EXCEPT !.issued = 1]
        /\ view = "quizMaster"
        /\ kg = Unmounted
        /\ en = Unmounted
        /\ lab = Unmounted

NextQuiz ==
    \/ \E to \in {"learningKit", "review", "cards", "characterSelection"} : QmNavigate(to)
    \/ \E c \in {"explorer"} : SelectCharacter(c)
    \/ StartQmQuiz
    \/ \E optionIndex \in 0..(NumOptions - 1) : handleAnswerSelectQuiz(optionIndex)
    \/ handleNextQuiz
    \/ \E c \in BOOLEAN : handleQuizExit(c)
    \/ \E kind \in {"ok", "error"} : QmFeedbackResponse(kind)
    \/ net.qmFeedback = 0 /\ BackToDashboard
    \/ \E resume \in BOOLEAN : OpenQuizMaster("", resume)

SpecQuiz == InitQuiz /\ [][NextQuiz]_vars

-----------------------------------------------------------------------------
(* ApiProvider on a first visit: no key is stored, the modal asks for one, *)
(* and the tools call runWithApiKey                                        *)

InitKey ==
    /\ ls = [ProfileLs(<< >>) EXCEPT !.apiKey = NoKey]
    /\ api = MountApi(ls)
    /\ net = InitNet
    /\ view \in {"english", "aiLab"}
    /\ en = IF view = "english" THEN MountEn ELSE Unmounted
    /\ lab = IF view = "aiLab" THEN MountLab ELSE Unmounted
    /\ kg = Unmounted
    /\ qm = Unmounted

NextKey ==
    \/ \E key \in KeyInputs : SaveApiKey(key)
    \/ SetInputText("hi")
    \/ SendEnter
    \/ \E i \in 1..MaxInFlight, kind \in GenKinds : ChatResponse(i, kind)
    \/ \E pos \in 1..MaxMessages : PlayAudioClick(pos)
    \/ \E i \in 1..(MaxInFlight + MaxAudio), kind \in {"ok", "error"} : TtsResponse(i, kind)
    \/ \E c \in {"", "DNA"} : SetConcept(c)
    \/ ExploreEnter
    \/ \E i \in 1..MaxInFlight, kind \in GenKinds \cup {"noImage"} : ExploreResponse(i, kind)

SpecKey == InitKey /\ [][NextKey]_vars

-----------------------------------------------------------------------------
(* Properties *)

\* the pair KidGeniusApp is set to
CurrentPair == <<kg.settings.grade, kg.settings.subject>>

\* an attempt has just been completed and its result is on screen
KidGeniusCompleted ==
    /\ view = "kidGenius"
    /\ kg.stage = "result"
    /\ kg.viewingHistoryEntry = Null
    /\ Len(kg.questions) > 0

KidGeniusFinalScoreOk ==
    KidGeniusCompleted =>
        /\ kg.score <= PerfectScore
        /\ wrongAnswersInfo(kg.questions, kg.userAnswers) = {} => kg.score = PerfectScore

QuizMasterCompleted ==
    /\ view = "quizMaster"
    /\ qm.stage = "result"
    /\ qm.result # Null

QuizMasterFinalScoreOk ==
    QuizMasterCompleted =>
        /\ qm.result[1].score <= PerfectScore
        /\ (\A i \in 1..Len(qm.correctness) : qm.correctness[i]) =>
               qm.result[1].score = PerfectScore

\* C1: in both quiz flows, an attempt of N questions that were all answered
\* correctly ends with a final score of exactly 100, and no attempt ends with
\* a final score above 100.
C1_FinalScoreIs100 == KidGeniusFinalScoreOk /\ QuizMasterFinalScoreOk

\* rank of the difficulty that progress records for pair p
LevelOf(progress, p) == difficultyOrder[UnlockedLevel(progress, p[1], p[2])]

\* C2: the unlocked difficulty of every (grade, subject) pair, in component
\* state and in the persisted kidGeniusProgress value, never decreases in any
\* step of KidGeniusApp.
C2_UnlockMonotonic ==
    [][view = "kidGenius" =>
          \A p \in Partitions :
              /\ LevelOf(kg'.unlockedLevels, p) >= LevelOf(kg.unlockedLevels, p)
              /\ LevelOf(ls'.progress, p) >= LevelOf(ls.progress, p)]_vars

\* a failed attempt at De is on screen for a pair that has unlocked Kho
C2_Witness ==
    /\ KidGeniusCompleted
    /\ kg.score < PassScore
    /\ kg.settings.difficulty = "De"
    /\ UnlockedLevel(kg.unlockedLevels, CurrentPair[1], CurrentPair[2]) = "Kho"
    /\ UnlockedLevel(ls.progress, CurrentPair[1], CurrentPair[2]) = "Kho"

\* the scores a quiz can end with that pass the threshold
PassingScores ==
    {sc \in {k * PointsPerQuestion : k \in 0..MaxQuestions} : sc >= PassScore}

\* C3: applying the unlock policy twice with the same grade, subject,
\* difficulty and passing score gives the result of applying it once, for the
\* progress in state and the persisted one; and while the result stage is
\* shown a re-run of the unlock effect changes neither of them.
C3_UnlockIdempotent ==
    view = "kidGenius" =>
        /\ \A g \in GRADES, s \in SUBJECTS, d \in DOMAIN difficultyOrder,
              sc \in PassingScores :
              \A progress \in {kg.unlockedLevels, ls.progress} :
                  UnlockPolicy(UnlockPolicy(progress, g, s, d, sc), g, s, d, sc)
                      = UnlockPolicy(progress, g, s, d, sc)
        /\ kg.stage = "result" =>
              /\ UnlockPolicy(kg.unlockedLevels, CurrentPair[1], CurrentPair[2],
                              kg.settings.difficulty, kg.score) = kg.unlockedLevels
              /\ ls.progress = kg.unlockedLevels

\* the result stage is shown again (a history entry was opened after play
\* again) with the passing score and the difficulty that unlocked the level
C3_Witness ==
    /\ view = "kidGenius"
    /\ kg.stage = "result"
    /\ kg.viewingHistoryEntry # Null
    /\ kg.questions = << >>
    /\ kg.score >= PassScore
    /\ kg.settings.difficulty = "De"
    /\ UnlockedLevel(kg.unlockedLevels, CurrentPair[1], CurrentPair[2]) = "TrungBinh"
    /\ ls.progress = kg.unlockedLevels

\* the tier after difficulty d
TierAfter(d) == DIFFICULTIES[difficultyOrder[d] + 1]

\* C4: when an attempt at difficulty d completes, the pair's unlocked
\* difficulty becomes the tier after d if score >= 70, d is not Kho and that
\* tier is strictly higher than the unlocked one; otherwise progress is
\* unchanged; the other pairs are unchanged in every case.
C4_UnlockRule ==
    [][(view = "kidGenius" /\ kg.stage = "quiz" /\ kg'.stage = "result") =>
          LET g == kg.settings.grade
              s == kg.settings.subject
              d == kg.settings.difficulty
              old == UnlockedLevel(kg.unlockedLevels, g, s)
              raised == /\ kg.score >= 70
                        /\ d # "Kho"
                        /\ difficultyOrder[TierAfter(d)] > difficultyOrder[old]
          IN  /\ UnlockedLevel(kg'.unlockedLevels, g, s) = IF raised THEN TierAfter(d) ELSE old
              /\ ls'.progress = kg'.unlockedLevels
              /\ ~raised => /\ kg'.unlockedLevels = kg.unlockedLevels
                            /\ ls'.progress = ls.progress
              /\ \A p \in Partitions \ {<<g, s>>} :
                    kg'.unlockedLevels[p[1]][p[2]] = kg.unlockedLevels[p[1]][p[2]]]_vars

\* an attempt at TrungBinh passed on a pair whose stored history holds one
\* attempt: Kho was unlocked by this attempt, the other pair kept its level
C4_Witness ==
    /\ KidGeniusCompleted
    /\ kg.score >= PassScore
    /\ kg.settings.difficulty = "TrungBinh"
    /\ Len(ls.history[CurrentPair]) = 1
    /\ UnlockedLevel(kg.unlockedLevels, CurrentPair[1], CurrentPair[2]) = "Kho"
    /\ \E p \in Partitions \ {CurrentPair} : LevelOf(ls.progress, p) = 2

IsPrefix(a, b) == Len(a) <= Len(b) /\ SubSeq(b, 1, Len(a)) = a

Range(seq) == {seq[i] : i \in 1..Len(seq)}

\* C5: in every step the sequence stored under a partition's history key is
\* the one stored before extended by new entries, and no new entry is an
\* entry stored under another partition's key.
C5_HistoryAppendOnly ==
    [][view = "kidGenius" =>
          \A p \in Partitions :
              /\ IsPrefix(ls.history[p], ls'.history[p])
              /\ \A i \in (Len(ls.history[p]) + 1)..Len(ls'.history[p]) :
                    \A q \in Partitions \ {p} :
                        ls'.history[p][i] \notin Range(ls.history[q])]_vars

\* C6: a step that leaves the quiz stage through the exit control (KidGenius:
\* back to setup; QuizMaster: to the builder or to the student-name entry)
\* leaves the persisted history, submissions and last result as they were,
\* and a declined confirmation changes nothing.
C6_AbandonWritesNothing ==
    [][/\ (kg.stage = "quiz" /\ kg'.stage = "setup") => ls'.history = ls.history
       /\ (qm.stage = "quiz" /\ qm'.stage \in {"builder", "studentNameEntry"}) =>
              /\ ls'.submissions = ls.submissions
              /\ ls'.last = ls.last
              /\ ls'.history = ls.history
       /\ QuizBack(FALSE) => UNCHANGED vars
       /\ handleQuizExit(FALSE) => UNCHANGED vars]_vars

\* the attempt of 5 questions was left after answering question 1
C6_Witness ==
    /\ view = "kidGenius"
    /\ kg.stage = "setup"
    /\ Len(kg.questions) = 5
    /\ DOMAIN kg.userAnswers = {0}
    /\ net.feedback = << >>
    /\ Len(ls.history[CurrentPair]) = 0

\* the history entry of the attempt that state k completes or request r carries
AttemptEntryOk(e, sc, st, questions, answers) ==
    /\ e.score = sc
    /\ e.difficulty = st.difficulty
    /\ e.questions = questions
    /\ e.userAnswers = answers

\* a step that completes an attempt
CompletionStep == view = "kidGenius" /\ kg.stage = "quiz" /\ kg'.stage = "result"

\* the completing step stored the entry of the attempt itself
StoredAtCompletion ==
    LET p == CurrentPair
    IN  /\ net'.feedback = net.feedback
        /\ Len(ls'.history[p]) > 0
        /\ AttemptEntryOk(ls'.history[p][Len(ls'.history[p])], kg.score, kg.settings,
                          kg.questions, kg.userAnswers)
        /\ \A q \in Partitions \ {p} : ls'.history[q] = ls.history[q]

\* the completing step handed the attempt to the tutor-feedback call
HandedToFeedback ==
    /\ Len(net'.feedback) = Len(net.feedback) + 1
    /\ LET r == net'.feedback[Len(net'.feedback)]
       IN  /\ r.finalScore = kg.score
           /\ r.settings = kg.settings
           /\ r.finalQuestions = kg.questions
           /\ r.finalUserAnswers = kg.userAnswers
    /\ ls'.history = ls.history

\* the step ends tutor-feedback call i and stores the entry of its attempt
StoredAtResponse(i) ==
    LET r == net.feedback[i]
        p == <<r.settings.grade, r.settings.subject>>
    IN  /\ net'.feedback = RemoveAt(net.feedback, i)
        /\ Len(ls'.history[p]) > 0
        /\ AttemptEntryOk(ls'.history[p][Len(ls'.history[p])], r.finalScore, r.settings,
                          r.finalQuestions, r.finalUserAnswers)
        /\ \A q \in Partitions \ {p} : ls'.history[q] = ls.history[q]

KidGeniusCorrect ==
    Cardinality({i \in DOMAIN kg.userAnswers :
                    kg.userAnswers[i] = kg.questions[i + 1].correctAnswerIndex})

QuizMasterCorrect ==
    Cardinality({i \in 1..Len(qm.questions) :
                    /\ qm.questions[i].id \in DOMAIN qm.answers
                    /\ qm.answers[qm.questions[i].id] = qm.questions[i].a})

\* C8: while feedback for the current question is shown, a step that stays on
\* that question changes neither the recorded answers, the correctness flag
\* nor the score; during a quiz the score is the per-question weight times the
\* number of correctly answered questions.
C8_AnswerRecordedOnce ==
    /\ [][/\ (kg.stage = "quiz" /\ kg.showFeedback /\ kg'.stage = "quiz" /\ kg'.showFeedback) =>
                /\ kg'.userAnswers = kg.userAnswers
                /\ kg'.selectedAnswer = kg.selectedAnswer
                /\ kg'.score = kg.score
          /\ (qm.stage = "quiz" /\ qm.showFeedback /\ qm'.stage = "quiz" /\ qm'.showFeedback) =>
                /\ qm'.answers = qm.answers
                /\ qm'.selectedAnswer = qm.selectedAnswer
                /\ qm'.score = qm.score]_vars
    /\ [](kg.stage = "quiz" => kg.score = PointsPerQuestion * KidGeniusCorrect)
    /\ [](qm.stage = "quiz" =>
              qm.score[1] * Len(qm.questions) = 100 * QuizMasterCorrect * qm.score[2])

\* the first question was answered correctly and its feedback is shown
C8_Witness ==
    /\ view = "kidGenius"
    /\ kg.stage = "quiz"
    /\ kg.showFeedback
    /\ kg.currentQuestionIndex = 0
    /\ kg.selectedAnswer # Null
    /\ kg.selectedAnswer[1].isCorrect
    /\ kg.score = PointsPerQuestion

\* upstream responses that are empty, unparseable, of another shape, or
\* without items
BadKinds == {"empty", "unparseable", "wrongShape", "zeroItems"}

\* C9: when the upstream response is empty, unparseable, of another shape or
\* without items, each generation (KidGenius quiz, learning kit, PDF cards)
\* sets its error, keeps the stage and installs nothing.
C9_GenerationRejects ==
    [][\A kind \in BadKinds, n \in 1..MaxQuestions :
          /\ (\E i \in 1..MaxRequests : QuizResponse(i, kind, n)) =>
                /\ kg'.stage = kg.stage
                /\ kg'.error # ""
                /\ kg'.questions = kg.questions
          /\ LearningKitResponse(kind, n) =>
                /\ qm'.stage = qm.stage
                /\ qm'.generationError # ""
                /\ qm'.questions = qm.questions
                /\ qm'.cards = qm.cards
                /\ qm'.learningKit = qm.learningKit
          /\ PdfResponse(kind, n, FALSE) =>
                /\ qm'.stage = qm.stage
                /\ qm'.parseError # ""
                /\ qm'.cards = qm.cards]_vars

\* C10: when the quiz generation fails, KidGeniusApp is in the setup stage
\* with a non-empty error and isLoading false, and questions,
\* currentQuestionIndex, score, userAnswers and the feedback flags are as
\* they were.
C10_FailureStaysInSetup ==
    [][\A kind \in RespKinds \ {"ok"} :
          (\E i \in 1..MaxRequests : QuizResponse(i, kind, 1)) =>
              /\ kg'.stage = "setup"
              /\ kg'.error # ""
              /\ ~kg'.isLoading
              /\ kg'.questions = kg.questions
              /\ kg'.currentQuestionIndex = kg.currentQuestionIndex
              /\ kg'.score = kg.score
              /\ kg'.userAnswers = kg.userAnswers
              /\ kg'.showFeedback = kg.showFeedback
              /\ kg'.selectedAnswer = kg.selectedAnswer
              /\ kg'.isFeedbackLoading = kg.isFeedbackLoading]_vars

\* the part of C10 that the failing continuation itself guarantees: it keeps
\* the stage it finds
FailureKeepsStage ==
    [][\A kind \in RespKinds \ {"ok"} :
          (\E i \in 1..MaxRequests : QuizResponse(i, kind, 1)) =>
              /\ kg'.stage = kg.stage
              /\ kg'.error # ""
              /\ ~kg'.isLoading
              /\ kg'.questions = kg.questions
              /\ kg'.score = kg.score
              /\ kg'.userAnswers = kg.userAnswers]_vars

-----------------------------------------------------------------------------
(* Requests that outlive their context *)

\* C11: a generation response that arrives after the user left the
\* requesting context is discarded.  A quiz response whose request was made
\* for another (grade, subject) than the one now selected starts no quiz; a
\* learning-path response for another (grade, subject) leaves the displayed
\* path as it is; a chat reply of a session of another scenario than the
\* one now selected adds no message.
C11_StaleResponseDiscarded ==
    [][/\ \A i \in 1..MaxInFlight, kind \in GenKinds, n \in QuizLengths :
             (/\ i <= Len(net.quiz)
              /\ <<net.quiz[i].grade, net.quiz[i].subject>> # CurrentPair
              /\ QuizResponse(i, kind, n))
                => /\ kg'.stage = kg.stage
                   /\ kg'.questions = kg.questions
       /\ \A i \in 1..MaxInFlight, kind \in GenKinds :
             (/\ i <= Len(net.path)
              /\ <<net.path[i].grade, net.path[i].subject>> # CurrentPair
              /\ LearningPathResponse(i, kind))
                => /\ kg'.learningPath = kg.learningPath
                   /\ ls'.path = ls.path
       /\ \A i \in 1..MaxInFlight, kind \in GenKinds :
             (/\ i <= Len(net.chat)
              /\ net.chat[i].scenario # en.scenario
              /\ ChatResponse(i, kind))
                => en'.messages = en.messages]_vars

\* C12: while a content-generation request is in flight every trigger of
\* that request is blocked: at most one quiz-generation request, at most one
\* tutor-feedback request and at most one AI Lab exploration is outstanding.
C12_OneOutstandingRequest ==
    /\ Len(net.quiz) <= 1
    /\ Len(net.feedback) <= 1
    /\ Len(net.explore) <= 1

\* C13: whenever an upstream call issued through runWithApiKey fails with
\* an invalid-credential error, the cached key is removed from the state and
\* from local storage and the key-entry modal is shown.
C13_InvalidKeyForcesReentry ==
    [][\A i \in 1..MaxInFlight, n \in QuizLengths :
          (\/ QuizResponse(i, "invalidKey", n)
           \/ LearningPathResponse(i, "invalidKey")
           \/ ChatResponse(i, "invalidKey")
           \/ ExploreResponse(i, "invalidKey"))
             => /\ api'.apiKey = NoKey
                /\ api'.showKeyModal
                /\ ls'.apiKey = NoKey]_vars

-----------------------------------------------------------------------------
(* Start-up reads *)

KeyUnreadable(l, key) ==
    \/ key \in l.corrupt
    \/ key = "settings" /\ l.settings = Null
    \/ key = "progress" /\ l.progress = NoProgress
    \/ key = "path" /\ \A p \in Partitions : l.path[p] = NoPath
    \/ key = "history" /\ \A p \in Partitions : l.history[p] = << >>
    \/ key = "session" /\ l.session = Null

\* KidGeniusApp opened on a storage whose key is absent or not JSON shows the
\* default for that key
KidGeniusDefaults ==
    OpenKidGenius =>
       /\ KeyUnreadable(ls, "settings")
            => kg'.settings = [grade |-> "Lop6", subject |-> "Toan",
                               difficulty |-> "De", topic |-> ""]
       /\ KeyUnreadable(ls, "progress") => kg'.unlockedLevels = NoProgress
       /\ KeyUnreadable(ls, "path") => kg'.learningPath = NoPath
       /\ KeyUnreadable(ls, "history") => kg'.quizHistory = << >>

\* QuizMasterApp opened on such a storage does not fail, and without a
\* readable session it starts in the builder
QuizMasterDefaults ==
    \A assignment \in {"", "A1"}, resume \in BOOLEAN :
       OpenQuizMaster(assignment, resume) =>
          /\ qm' # Crashed
          /\ (assignment = "" /\ KeyUnreadable(ls, "session")) => qm' = InitQm

\* C14: for every persisted key read at start-up (KidGenius settings,
\* progress, learning path, history; QuizMaster assignments, submissions,
\* session) a missing or non-JSON stored value gives the default state and
\* never an uncaught parse error.
C14_StartupReadsFallBack == [][KidGeniusDefaults /\ QuizMasterDefaults]_vars

-----------------------------------------------------------------------------
(* Perfect attempts *)

\* C15: for every number of questions the generator may return, a completed
\* KidGenius attempt without a wrong answer has the maximal score and takes
\* the perfect-score branch of generateAITutorFeedback: the feedback is the
\* fixed celebratory one and no request is sent to the external service.
C15_AllCorrectIsPerfect ==
    (KidGeniusCompleted /\ KidGeniusCorrect = Len(kg.questions))
       => /\ kg.score = PerfectScore
          /\ kg.aiTutorFeedback = "perfect"
          /\ net.feedback = << >>

-----------------------------------------------------------------------------
(* Quizzes made from flashcards *)

\* the subset of the deck that the chosen strategy selects
PoolNow == CardPool(qm.cards, qm.quizFromCardsStrategy)

\* a quiz that useCardsToQuiz has just installed
QuizFromCards ==
    /\ view = "quizMaster"
    /\ qm.stage = "characterSelection"
    /\ Len(qm.cards) > 0
    /\ qm.learningKit = Null

\* the option that question k scores as correct
AnswerText(k) == qm.questions[k].opts[qm.questions[k].a + 1]

\* C16: the quiz made from the cards has exactly min(count, size of the
\* selected subset) questions, each built from a different card of that
\* subset (no more questions show a front with its back than the subset
\* has such cards); for 4 cards and count 5 there are at most 4 questions,
\* and every prompt is the front of a selected card.
C16_QuizFromSelectedCards ==
    QuizFromCards =>
       /\ Len(qm.questions) = Min({qm.count, Len(PoolNow)})
       /\ \A k \in 1..Len(qm.questions) :
             /\ \E j \in 1..Len(PoolNow) : PoolNow[j].front = qm.questions[k].q
             /\ Cardinality({m \in 1..Len(qm.questions) :
                                /\ qm.questions[m].q = qm.questions[k].q
                                /\ AnswerText(m) = AnswerText(k)})
                  <= Cardinality({j \in 1..Len(PoolNow) :
                                     /\ PoolNow[j].front = qm.questions[k].q
                                     /\ PoolNow[j].back = AnswerText(k)})
       /\ (Len(qm.cards) = 4 /\ qm.count = 5) => Len(qm.questions) <= 4

\* a quiz of count questions made from a larger selection
C16_Witness ==
    /\ QuizFromCards
    /\ Len(qm.questions) = qm.count
    /\ Len(PoolNow) > qm.count
    /\ qm.quizFromCardsStrategy = "needsReview"

\* C17: every question made from the cards has the back of its card at
\* option index a, a valid index, with min(3, number of other selected
\* cards) distractors, none of which equals the correct back-text: exactly
\* one option is scored correct.
C17_OneCorrectOption ==
    QuizFromCards =>
       \A k \in 1..Len(qm.questions) :
          LET q == qm.questions[k]
          IN  /\ q.a \in 0..(Len(q.opts) - 1)
              /\ \E j \in 1..Len(PoolNow) :
                    PoolNow[j].front = q.q /\ PoolNow[j].back = AnswerText(k)
              /\ Len(q.opts) = 1 + Min({3, Len(PoolNow) - 1})
              /\ Cardinality({o \in 1..Len(q.opts) : q.opts[o] = AnswerText(k)}) = 1

\* the cards at the positions of a set, in their order
Restrict(arr, positions) ==
    LET F[i \in 0..Len(arr)] ==
            IF i = 0 THEN << >>
            ELSE IF i \in positions THEN Append(F[i - 1], arr[i]) ELSE F[i - 1]
    IN  F[Len(arr)]

MasteredPositions == {i \in 1..Len(qm.cards) : qm.cards[i].status = "mastered"}

\* C18: for any distribution of statuses the cards selected by strategy
\* notMastered and the mastered cards partition the deck: the selection is
\* the deck without the mastered cards, in the original order; the list
\* filter notMastered shows the same cards.
C18_NotMasteredPartition ==
    (view = "quizMaster" /\ qm.stage \in {"cards", "characterSelection"})
       => /\ CardPool(qm.cards, "notMastered")
                = Restrict(qm.cards, (1..Len(qm.cards)) \ MasteredPositions)
          /\ {i \in 1..Len(qm.cards) : shouldShow(qm.cards[i], "notMastered")}
                = (1..Len(qm.cards)) \ MasteredPositions

\* a deck that holds a card of each status
C18_Witness ==
    /\ view = "quizMaster"
    /\ qm.stage = "cards"
    /\ {qm.cards[i].status : i \in 1..Len(qm.cards)} = CardStatuses
    /\ Len(qm.cards) = MaxCards

\* C19: when the subset selected by the strategy is empty, useCardsToQuiz
\* reports it and starts no quiz: stage, questions, answers and correctness
\* stay as they were.
C19_EmptySelectionStartsNoQuiz ==
    [][\A rnd \in Draws :
          (Len(PoolNow) = 0 /\ useCardsToQuiz(rnd))
             => /\ qm'.alert = "no-cards"
                /\ qm'.stage = qm.stage
                /\ qm'.questions = qm.questions
                /\ qm'.answers = qm.answers
                /\ qm'.correctness = qm.correctness]_vars

\* the alert was shown for an empty needsReview selection
C19_Witness ==
    /\ view = "quizMaster"
    /\ qm.stage = "cards"
    /\ qm.alert = "no-cards"
    /\ qm.quizFromCardsStrategy = "needsReview"
    /\ qm.questions = << >>

\* C20: dropping the dragged card on position to gives a permutation of the
\* deck in which the dragged card is at position to and the other cards keep
\* their order, every card as it was; dropping it on its own position
\* leaves the deck unchanged.
C20_ReorderMovesOneCard ==
    [][\A to \in 0..(MaxCards - 1) :
          (handleCardDrop(to) /\ qm.draggedIndex # Null)
             => LET from == qm.draggedIndex[1]
                IN  IF from = to
                      THEN qm'.cards = qm.cards
                      ELSE /\ Len(qm'.cards) = Len(qm.cards)
                           /\ qm'.cards[to + 1] = qm.cards[from + 1]
                           /\ RemoveAt(qm'.cards, to + 1) = RemoveAt(qm.cards, from + 1)]_vars

\* the first card of a full deck was dropped on the last position
C20_Witness ==
    /\ view = "quizMaster"
    /\ qm.stage = "cards"
    /\ Len(qm.cards) = MaxCards
    /\ qm.cards[MaxCards].front = 1
    /\ qm.cards[1].front = 2
    /\ qm.draggedIndex = Null

-----------------------------------------------------------------------------
(* Attempts in progress *)

\* C21: from the moment a KidGenius attempt is in progress until it
\* completes or is abandoned its question list does not change, and no
\* generation response resets its index, score or answers.
C21_QuestionsFixedInProgress ==
    [][(view = "kidGenius" /\ kg.stage = "quiz" /\ kg'.stage = "quiz")
          => /\ kg'.questions = kg.questions
             /\ \A i \in 1..MaxInFlight, kind \in RespKinds, n \in QuizLengths :
                   QuizResponse(i, kind, n)
                      => /\ kg'.currentQuestionIndex = kg.currentQuestionIndex
                         /\ kg'.score = kg.score
                         /\ kg'.userAnswers = kg.userAnswers]_vars

\* C22: clamp(n, min, max) returns min below min, max above max and n
\* otherwise; after every blur of the count input the question count lies
\* within 1..20, and the cards kept from a PDF never exceed the requested
\* card count.
C22_ClampKeepsCountsInRange ==
    [][(view = "quizMaster" /\ qm.stage = "builder")
          => /\ \A t \in CountTexts :
                   LET n == Number(t)
                   IN  clamp(n, 1, 20) = IF n < 1 THEN 1 ELSE IF n > 20 THEN 20 ELSE n
             /\ qm'.count \in 1..20
             /\ qm'.stage = "cards" => Len(qm'.cards) <= Head(net.pdf)]_vars

\* the TTS request that the step sends, if it sends one
NewTtsRequest == net'.tts[Len(net'.tts)]

\* C23 as stated: once audio for a text has been generated and decoded,
\* every later playback request for the identical text issues no further
\* generation request.
C23_NeverGeneratedTwice ==
    [][Len(net'.tts) > Len(net.tts) => NewTtsRequest \notin net.decoded]_vars

\* C23: while EnglishPracticeApp stays mounted, a text whose audio has been
\* generated and decoded stays in the cache, every later playback request
\* for it plays the cached buffer and no further generation request for it
\* is sent.
C23_CachedAudioReplayed ==
    [][(view = "english" /\ en.stage = "chat" /\ en'.stage = "chat")
          => /\ en.audioCache \subseteq en'.audioCache
             /\ Len(net'.tts) > Len(net.tts) => NewTtsRequest \notin en.audioCache
             /\ \A pos \in 1..Len(en.messages) :
                   (/\ en.messages[pos].sender = "ai"
                    /\ AudioText(en.messages[pos]) \in en.audioCache
                    /\ PlayAudioClick(pos))
                      => /\ net'.tts = net.tts
                         /\ en'.lastPlayed = <<[text |-> AudioText(en.messages[pos]),
                                                from |-> "cache"]>>]_vars

C23_Witness ==
    /\ view = "english" /\ en.stage = "chat"
    /\ en.lastPlayed # Null
    /\ en.lastPlayed[1].from = "cache"
    /\ en.lastPlayed[1].text \in en.audioCache

\* C24: when an AI Lab exploration request fails (a call fails or no image
\* is returned) the view shows an error message and explanation, image and
\* conversation history are the same as before the request.
C24_FailedExplorationRestores ==
    [][\A i \in 1..MaxInFlight, kind \in {"error", "invalidKey", "noImage"} :
          (/\ view = "aiLab"
           /\ i <= Len(net.explore)
           /\ ExploreResponse(i, kind))
             => /\ lab'.error # ""
                /\ lab'.explanation = net.explore[i].closure.explanation
                /\ lab'.imageUrl = net.explore[i].closure.imageUrl
                /\ lab'.conversationHistory = net.explore[i].closure.conversationHistory]_vars

\* C25: exporting a flashcard set and importing it again yields the
\* identical ordered sequence of {front, back} pairs: QuizMaster opened from
\* a shared-set link shows the cards of the link.
C25_ExportImportRoundTrip ==
    (view = "quizMaster" /\ net.location # Null)
        => SetData(qm.cards) = net.location[1]

\* C26: the unlocked tier of a (grade, subject) pair changes only when a
\* quiz played on that pair completes; opening a history entry or changing
\* grade or subject after a passing attempt unlocks nothing.
C26_UnlockOnlyOnCompletion ==
    [][(/\ view = "kidGenius"
        /\ kg.stage # "unmounted" /\ kg'.stage # "unmounted"
        /\ kg'.unlockedLevels # kg.unlockedLevels)
          => /\ kg.stage = "quiz" /\ kg'.stage = "result"
             /\ \A g \in GRADES, s \in SUBJECTS :
                   kg'.unlockedLevels[g][s] # kg.unlockedLevels[g][s]
                      => g = kg.settings.grade /\ s = kg.settings.subject]_vars

\* C27: in every in-progress QuizMaster quiz state, whatever the type of
\* the current question and with or without an options list, the user can
\* record an answer and then advance: an option button is offered, or the
\* feedback panel with the next button is shown.
C27_EveryQuestionAnswerable ==
    (view = "quizMaster" /\ QmQuizShown)
        => \/ qm.showFeedback
           \/ qm.questions[qm.currentQuestionIndex + 1].opts > 0

\* the stage view of q is rendered
Displayable(q) ==
    CASE q.stage \in {"learningKit", "review"} -> q.learningKit # Null
      [] q.stage = "quiz" -> Len(q.questions) > 0 /\ q.selectedCharacter # ""
      [] q.stage = "result" -> q.result # Null
      [] OTHER -> TRUE

\* C29: the state of QuizMaster, resumed from a saved session or not, has a
\* displayable stage view (the quiz stage is never there without a selected
\* character), and after an attempt has completed no saved session remains
\* that would resume that attempt.
C29_ResumeDisplayableAndCleared ==
    (view = "quizMaster")
        => /\ Displayable(qm)
           /\ (qm.stage = "result" /\ qm.assignmentId = "")
                 => (ls.session = Null \/ ls.session[1].stage # "quiz")

\* C28: a quiz started from the learning path with week topics T and
\* difficulty d sends a generation request whose topic is T and whose
\* difficulty is d, and the history entry of an attempt records the topic
\* and difficulty its questions were generated for.
C28_PathQuizRequestsClickedWeek ==
    [][(view = "kidGenius" /\ kg.stage # "unmounted")
          => /\ \A w \in 1..NumWeeks, d \in DOMAIN difficultyOrder :
                   (Len(net'.quiz) > Len(net.quiz) /\ startQuizFromPath(w, d))
                      => /\ net'.quiz[Len(net'.quiz)].topic = WeekTopic(w)
                         /\ net'.quiz[Len(net'.quiz)].difficulty = d
             /\ \A i \in 1..Len(kg'.quizHistory) :
                   LET entry == kg'.quizHistory[i]
                   IN  (Len(entry.questions) > 0 /\ entry.questions[1].topic # "")
                          => /\ entry.topic = entry.questions[1].topic
                             /\ entry.difficulty = entry.questions[1].difficulty]_vars

\* the in-memory key and the stored key agree and the modal is shown while
\* there is no key
KeyConsistent(a, l) ==
    /\ a.apiKey = l.apiKey
    /\ a.apiKey \in {NoKey, "K"}
    /\ a.apiKey = NoKey => a.showKeyModal

\* C30: after the ApiProvider has initialised, the in-memory apiKey equals
\* the value stored under 'google-api-key' (both absent, or the same
\* trimmed non-empty string), the modal is shown whenever apiKey is null,
\* saving an empty or whitespace-only key changes neither, and
\* runWithApiKey never invokes its callback while apiKey is null: no request
\* is sent and no tool state changes beyond the typed input.
C30_KeyMatchesStorage ==
    [][/\ KeyConsistent(api, ls)
       /\ KeyConsistent(api', ls')
       /\ \A key \in KeyInputs :
             (api.showKeyModal /\ Trim(key) = "" /\ SaveApiKey(key))
                => api' = api /\ ls' = ls
       /\ api.apiKey = NoKey
             => /\ net' = net
                /\ en.stage = "chat"
                      => en'.messages = en.messages /\ en'.isLoading = en.isLoading
                /\ lab.stage = "lab"
                      => lab'.isLoading = lab.isLoading /\ lab'.error = lab.error]_vars

C30_Witness ==
    /\ api.apiKey = "K" /\ ls.apiKey = "K" /\ ~api.showKeyModal
    /\ Len(net.chat) + Len(net.explore) > 0

=============================================================================
